---- MODULE Spec2Model ----
(***************************************************************************)
(* State-machine model of the order-to-feature pipeline and the model      *)
(* inference contract of the e-commerce return prediction service:         *)
(*   services/agents/order_processing.py    validation, basic features     *)
(*   services/agents/feature_engineering.py derived features, column set   *)
(*   services/agents/model_inference.py     model slots, fallback, result  *)
(*   services/api/prediction.py             /predict/single                *)
(*   services/api/order_processing.py       /orders/process, batch-process *)
(*                                                                         *)
(* Units.  Money is counted in cents (199.99 USD = 19999), discounts in    *)
(* percent, probabilities in millionths (0.3 = 300000), so that every      *)
(* threshold comparison of the source is an exact integer comparison.      *)
(* Ratios are kept as exact fractions [num, den].                          *)
(***************************************************************************)
EXTENDS Integers, Sequences, FiniteSets, TLC

VARIABLES
    inference_agent,         \* model_inference._inference_agent (NoAgent until constructed)
    order_processed_count,   \* OrderProcessingAgent.processed_count of the global agent
    feature_processed_count, \* FeatureEngineeringAgent.processed_count of the global agent
    store,                   \* rows held by the prediction store
    resp,                    \* what the last operation returned, with the model calls it made
    batch_jobs,              \* prediction.batch_jobs: job id -> job record
    tasks                    \* the background tasks added at upload, by job id

vars == <<inference_agent, order_processed_count, feature_processed_count, store, resp,
          batch_jobs, tasks>>
job_vars == <<batch_jobs, tasks>>

(***************************************************************************)
(* Generic helpers: Python values                                          *)
(***************************************************************************)
\* Optional values: <<>> is None / key absent, <<v>> is the value v.
None == <<>>
Some(v) == <<v>>
IsNone(x) == x = <<>>
Val(x) == x[1]

Range(s) == {s[i] : i \in 1..Len(s)}
Min(a, b) == IF a < b THEN a ELSE b
Max(a, b) == IF a > b THEN a ELSE b

\* A value computed once and used by the rest of a handler
Bind(v, F(_)) == F(v)

\* dict.get(key, default)
DictGet(d, k, default) == IF k \in DOMAIN d THEN d[k] ELSE default

\* A result that is either a value or a raised exception.
Ok(v) == [raised |-> FALSE, value |-> v, error |-> "" ]
Raise(msg) == [raised |-> TRUE, value |-> <<>>, error |-> msg]

\* Probabilities in millionths: Prob(30) is 0.30.
Prob(percent) == percent * 10000

(***************************************************************************)
(* Single-row data frames: the column order and the row                    *)
(***************************************************************************)
EmptyFrame == [cols |-> <<>>, row |-> <<>>]
HasCol(df, c) == c \in Range(df.cols)
\* df[c] = v : overwrite in place, or append a new last column
SetCol(df, c, v) ==
    [cols |-> IF HasCol(df, c) THEN df.cols ELSE Append(df.cols, c),
     row  |-> (c :> v) @@ df.row]
\* Several assignments df[c] = vals[c], for the columns c of names in turn
SetCols(df, names, vals) ==
    [cols |-> df.cols \o SelectSeq(names, LAMBDA c : ~HasCol(df, c)),
     row  |-> [c \in Range(df.cols) \cup Range(names) |->
                 IF c \in Range(names) THEN vals[c] ELSE df.row[c]]]
\* df.get(c, default)
GetCol(df, c, default) == IF HasCol(df, c) THEN df.row[c] ELSE default
\* df[cols] : KeyError when a column is missing
SelectCols(df, cols) ==
    IF \A i \in 1..Len(cols) : HasCol(df, cols[i])
    THEN Ok([cols |-> cols, row |-> [c \in Range(cols) |-> df.row[c]]])
    ELSE Raise("KeyError")

(***************************************************************************)
(* The clock (datetime.now()) and order dates                              *)
(***************************************************************************)
\* What datetime.now() can return: ts is the "%Y%m%d_%H%M%S" second.
Clock ==
    { [ts |-> 1, year |-> 2025, month |-> 7, weekday |-> 0],
      [ts |-> 2, year |-> 2026, month |-> 1, weekday |-> 3] }

\* datetime.strptime(s, '%Y-%m-%d') on the date strings of the model; a string
\* outside the table does not match the format (ValueError).
ParsedDates ==
    ("2024-06-12" :> [year |-> 2024, month |-> 6, weekday |-> 2]) @@
    ("2023-11-05" :> [year |-> 2023, month |-> 11, weekday |-> 6])

(***************************************************************************)
(* OrderData: the pydantic schema of services/agents/order_processing.py   *)
(***************************************************************************)
allowed_genders == {"Male", "Female", "Other"}
allowed_shipping_methods == {"Standard", "Express", "Next-Day"}

\* The fields of OrderData in declaration order.
OrderDataFields ==
    <<"price", "quantity", "product_category", "gender", "payment_method", "age",
      "location", "discount_applied", "shipping_method", "order_date">>

\* The constraint of one field (Field(gt=, ge=, le=) and the field validators that
\* raise). The category and payment validators only log, so they never fail.
AgeInRangeLax(o) == o.age >= 0 /\ o.age <= 120
AgeInRange(o) == o.age >= 18 /\ o.age <= 100

FieldOk(o, f) ==
    CASE f = "price" -> o.price > 0
      [] f = "quantity" -> o.quantity > 0
      [] f = "gender" -> o.gender \in allowed_genders
      [] f = "age" -> AgeInRange(o)
      [] f = "discount_applied" ->
            IsNone(o.discount_applied)
            \/ (Val(o.discount_applied) >= 0 /\ Val(o.discount_applied) <= 100)
      [] OTHER -> TRUE

\* pydantic validates every field and collects the failures of all of them, in
\* field order, into one ValidationError.
RECURSIVE FailedFrom(_, _)
FailedFrom(o, i) ==
    IF i > Len(OrderDataFields) THEN <<>>
    ELSE (IF FieldOk(o, OrderDataFields[i]) THEN <<>> ELSE <<OrderDataFields[i]>>)
         \o FailedFrom(o, i + 1)

FirstFailedOnly(o) ==
    LET all == FailedFrom(o, 1) IN IF all = <<>> THEN <<>> ELSE <<all[1]>>

OrderDataErrors(o) == FailedFrom(o, 1)

\* validate_shipping_method: an unrecognized method (None included) becomes Standard
KeepShippingMethod(v) == v

validate_shipping_method(v) ==
    IF IsNone(v) \/ Val(v) \notin allowed_shipping_methods THEN Some("Standard") ELSE v

\* OrderData(**order_data): the validated model, or the ValidationError.
\* Keys that are not fields of the schema (order_id, total_order_value) are ignored.
OrderData(o) ==
    LET errs == OrderDataErrors(o) IN
    IF errs # <<>> THEN [raised |-> TRUE, value |-> <<>>, error |-> errs]
    ELSE [raised |-> FALSE,
          value |-> [price |-> o.price, quantity |-> o.quantity,
                     product_category |-> o.product_category, gender |-> o.gender,
                     payment_method |-> o.payment_method, age |-> o.age,
                     location |-> o.location,
                     discount_applied |-> o.discount_applied,
                     shipping_method |-> validate_shipping_method(o.shipping_method),
                     order_date |-> o.order_date],
          error |-> <<>>]

\* OrderProcessingAgent.validate_order_data: (is_valid, validated_data, error_msg);
\* error_msg is the text of the ValidationError, modelled as the fields it names.
validate_order_data(o) ==
    LET v == OrderData(o) IN
    [is_valid |-> ~v.raised, validated_data |-> v.value, error_msg |-> v.error]

(***************************************************************************)
(* OrderProcessingAgent.extract_basic_features                             *)
(***************************************************************************)
category_mapping ==
    ("Electronics" :> 1) @@ ("Clothing" :> 2) @@ ("Books" :> 3) @@ ("Home" :> 4) @@
    ("Toys" :> 5) @@ ("Sports" :> 6) @@ ("Beauty" :> 7) @@ ("Automotive" :> 8) @@
    ("Health" :> 9) @@ ("Home & Garden" :> 4)
gender_mapping == ("Male" :> 1) @@ ("Female" :> 2) @@ ("Other" :> 0)
payment_mapping ==
    ("Credit Card" :> 1) @@ ("Debit Card" :> 2) @@ ("PayPal" :> 3) @@
    ("Bank Transfer" :> 4) @@ ("Cash" :> 5) @@ ("Digital Wallet" :> 6) @@
    ("Gift Card" :> 7)
shipping_mapping == ("Standard" :> 1) @@ ("Express" :> 2) @@ ("Next-Day" :> 3)

\* The year, month and weekday of the order: parsed from order_date, and taken
\* from the clock when the date is absent or does not parse.
OrderDateParts(order_date, now) ==
    IF ~IsNone(order_date) /\ Val(order_date) \in DOMAIN ParsedDates
    THEN ParsedDates[Val(order_date)]
    ELSE [year |-> now.year, month |-> now.month, weekday |-> now.weekday]

TotalOrderValueUnitPrice(price, quantity) == price

\* features['Product_Price'] * features['Order_Quantity']
TotalOrderValue(price, quantity) == price * quantity

\* The feature dict in insertion order, as the one-row frame prepare_for_prediction
\* builds from it (pd.DataFrame([features])).
extract_basic_features(od, now) ==
    LET d == OrderDateParts(od.order_date, now)
        ship == IF IsNone(od.shipping_method) THEN "Standard" ELSE Val(od.shipping_method)
        disc == IF IsNone(od.discount_applied) THEN 0 ELSE Val(od.discount_applied)
        Product_Price == od.price
        Order_Quantity == od.quantity
    IN  SetCols(EmptyFrame,
            <<"Product_Category", "Product_Price", "Order_Quantity", "User_Age",
              "User_Gender", "Payment_Method", "Shipping_Method", "Discount_Applied",
              "User_Location_Num", "Total_Order_Value", "Order_Year", "Order_Month",
              "Order_Weekday">>,
            ("Product_Category" :> DictGet(category_mapping, od.product_category, 1)) @@
            ("Product_Price" :> Product_Price) @@
            ("Order_Quantity" :> Order_Quantity) @@
            ("User_Age" :> od.age) @@
            ("User_Gender" :> DictGet(gender_mapping, od.gender, 0)) @@
            ("Payment_Method" :> DictGet(payment_mapping, od.payment_method, 1)) @@
            ("Shipping_Method" :> DictGet(shipping_mapping, ship, 1)) @@
            ("Discount_Applied" :> disc) @@
            ("User_Location_Num" :> 1) @@
            ("Total_Order_Value" :> TotalOrderValue(Product_Price, Order_Quantity)) @@
            ("Order_Year" :> d.year) @@
            ("Order_Month" :> d.month) @@
            ("Order_Weekday" :> d.weekday))

(***************************************************************************)
(* FeatureEngineeringAgent (services/agents/feature_engineering.py), on    *)
(* the one-row frames the endpoints pass to it                             *)
(***************************************************************************)
B2I(b) == IF b THEN 1 ELSE 0
Frac(n, d) == [num |-> n, den |-> d]

\* The 18 columns transform keeps, in the order it keeps them.
required_model_features ==
    <<"Product_Category", "Product_Price", "Order_Quantity", "User_Age", "User_Gender",
      "Payment_Method", "Shipping_Method", "Discount_Applied", "Total_Order_Value",
      "Order_Year", "Order_Month", "Order_Weekday", "User_Location_Num",
      "Return_Risk_Score", "Price_Per_Item", "High_Discount", "Young", "High_Value">>

\* The loop over required_columns: a present column is left as it is (to_numeric
\* of a number), a missing one is created with its default.
RECURSIVE EnsureNumeric(_, _)
EnsureNumeric(df, cols) ==
    IF cols = <<>> THEN df
    ELSE LET c == Head(cols)
             next == IF HasCol(df, c) THEN df
                     ELSE IF c = "Total_Order_Value"
                          THEN SetCol(df, c, GetCol(df, "Product_Price", 0)
                                             * GetCol(df, "Order_Quantity", 1))
                          ELSE SetCol(df, c, 0)
         IN EnsureNumeric(next, Tail(cols))

\* pd.cut(Discount_Applied, bins=[0, 5, 15, 30, 100], labels=[0, 1, 2, 3],
\* include_lowest=True): -1 stands for NaN (outside every bin)
Discount_Tier(d) ==
    IF d < 0 \/ d > 100 THEN -1
    ELSE IF d <= 5 THEN 0 ELSE IF d <= 15 THEN 1 ELSE IF d <= 30 THEN 2 ELSE 3

\* np.select over the four age bands, default 2
Generation(age) ==
    IF age >= 18 /\ age <= 27 THEN 1
    ELSE IF age >= 28 /\ age <= 43 THEN 2
    ELSE IF age >= 44 /\ age <= 59 THEN 3
    ELSE IF age >= 60 THEN 4 ELSE 2

ReturnRiskScoreBothRules(price, age) ==
    IF price > 20000 /\ age < 25 THEN 2
    ELSE IF price > 10000 /\ age < 35 THEN 1 ELSE 0

\* np.select([price > 200 | age < 25, price > 100 | age < 35], [2, 1], default=0)
Return_Risk_Score(price, age) ==
    IF price > 20000 \/ age < 25 THEN 2
    ELSE IF price > 10000 \/ age < 35 THEN 1 ELSE 0

create_advanced_features(df) ==
    LET e1 == EnsureNumeric(df, <<"Product_Price", "Order_Quantity", "User_Age",
                                  "Discount_Applied", "Total_Order_Value">>)
        price == e1.row["Product_Price"]
        qty == e1.row["Order_Quantity"]
        age == e1.row["User_Age"]
        disc == e1.row["Discount_Applied"]
        total == e1.row["Total_Order_Value"]
        engineered_df ==
            SetCols(e1,
                <<"Price_Per_Item", "Price_Tier", "High_Discount", "Discount_Tier",
                  "Young", "Senior", "Generation", "High_Value", "Value_Quartile",
                  "Return_Risk_Score">>,
                \* Price_Per_Item = price / (quantity + 0.01)
                ("Price_Per_Item" :> Frac(price * 100, qty * 100 + 1)) @@
                \* one row has one distinct price: the middle tier
                ("Price_Tier" :> 2) @@
                ("High_Discount" :> B2I(disc > 20)) @@
                ("Discount_Tier" :> Discount_Tier(disc)) @@
                ("Young" :> B2I(age < 30)) @@
                ("Senior" :> B2I(age > 60)) @@
                ("Generation" :> Generation(age)) @@
                ("High_Value" :> B2I(total > 15000)) @@
                \* one row has one distinct value: the middle quartile
                ("Value_Quartile" :> 2) @@
                ("Return_Risk_Score" :> Return_Risk_Score(price, age)))
    IN  \* .astype(int) of a NaN tier raises, and the method re-raises
        IF Discount_Tier(disc) = -1 THEN Raise("ValueError: cannot convert NaN to integer")
        ELSE Ok(engineered_df)

season_mapping ==
    [m \in 1..12 |-> IF m \in {12, 1, 2} THEN 1 ELSE IF m \in {3, 4, 5} THEN 2
                     ELSE IF m \in {6, 7, 8} THEN 3 ELSE 4]

\* create_temporal_features: called by transform only for a frame without Order_Year
create_temporal_features(df, now) ==
    LET t0 == IF HasCol(df, "Order_Year") THEN df
              ELSE SetCols(df, <<"Order_Year", "Order_Month", "Order_Weekday">>,
                           ("Order_Year" :> now.year) @@ ("Order_Month" :> now.month) @@
                           ("Order_Weekday" :> now.weekday))
        y == t0.row["Order_Year"]
        m == t0.row["Order_Month"]
        wd == t0.row["Order_Weekday"]
    IN  SetCols(t0,
            <<"Order_Quarter", "Season", "Holiday_Season", "Back_To_School_Season",
              "Spring_Season", "Weekend_Order", "Monday_Order", "Friday_Order",
              "Recent_Year">>,
            ("Order_Quarter" :> ((m - 1) \div 3) + 1) @@
            ("Season" :> season_mapping[m]) @@
            ("Holiday_Season" :> B2I(m \in {11, 12})) @@
            ("Back_To_School_Season" :> B2I(m \in {8, 9})) @@
            ("Spring_Season" :> B2I(m \in {3, 4, 5})) @@
            ("Weekend_Order" :> B2I(wd \in {5, 6})) @@
            ("Monday_Order" :> B2I(wd = 0)) @@
            ("Friday_Order" :> B2I(wd = 4)) @@
            ("Recent_Year" :> B2I(y >= now.year - 1)))

\* create_interaction_features: every column it reads exists after
\* create_advanced_features on a basic feature frame
create_interaction_features(df) ==
    LET price == df.row["Product_Price"]
        qty == df.row["Order_Quantity"]
        age == df.row["User_Age"]
        disc == df.row["Discount_Applied"]
        cat == df.row["Product_Category"]
        pay == df.row["Payment_Method"]
    IN  SetCols(df,
            <<"Young_Expensive_Combo", "Senior_Electronics_Combo",
              "High_Discount_Expensive", "Discount_Price_Ratio", "Bulk_Expensive_Combo",
              "Avg_Price_Per_Item", "Electronics_High_Price", "Clothing_Category_Flag",
              "Cash_High_Value">>,
            ("Young_Expensive_Combo" :> B2I(age < 30 /\ price > 20000)) @@
            ("Senior_Electronics_Combo" :> B2I(age > 60 /\ cat = 1)) @@
            ("High_Discount_Expensive" :> B2I(disc > 25 /\ price > 15000)) @@
            ("Discount_Price_Ratio" :> Frac(disc * 100, price + 100)) @@
            ("Bulk_Expensive_Combo" :> B2I(qty > 2 /\ price > 10000)) @@
            ("Avg_Price_Per_Item" :> Frac(price, qty)) @@
            ("Electronics_High_Price" :> B2I(cat = 1 /\ price > 30000)) @@
            ("Clothing_Category_Flag" :> B2I(cat = 2)) @@
            ("Cash_High_Value" :> B2I(pay = 5 /\ price > 20000)))

\* The default encode_categorical_features gives a required feature that is missing.
MissingFeatureDefault(df, feature, now) ==
    CASE feature = "Price_Per_Item" ->
            Frac(GetCol(df, "Product_Price", 10000) * 100,
                 GetCol(df, "Order_Quantity", 1) * 100 + 1)
      [] feature = "Order_Year" -> now.year
      [] feature = "Order_Month" -> now.month
      [] feature = "Order_Weekday" -> now.weekday
      [] OTHER -> 0

RECURSIVE FillRequired(_, _, _)
FillRequired(df, i, now) ==
    IF i > Len(required_model_features) THEN df
    ELSE LET feature == required_model_features[i]
             filled == IF HasCol(df, feature) THEN df
                       ELSE SetCol(df, feature, MissingFeatureDefault(df, feature, now))
         IN FillRequired(filled, i + 1, now)

\* An encoding step that writes the temporal columns from the clock although
\* they are present
EncodeOverwritingTemporal(df, now) ==
    FillRequired(SetCols(df, <<"Order_Year", "Order_Month", "Order_Weekday">>,
                         [Order_Year |-> now.year, Order_Month |-> now.month,
                          Order_Weekday |-> now.weekday]), 1, now)

\* encode_categorical_features: the categorical columns of a basic feature frame
\* already hold their integer codes (dtype is not object), so they are not mapped
\* again; User_Location_Num is created when absent; then every required feature
\* that is missing gets its default.
encode_categorical_features(df, now) ==
    LET c1 == IF HasCol(df, "User_Location_Num") THEN df
              ELSE SetCol(df, "User_Location_Num", 1)
    IN  FillRequired(c1, 1, now)

\* FeatureEngineeringAgent.transform, without the processed_count update (the
\* caller adds one row to the count when the result is not raised).
transform(df, now) ==
    IF df.cols = <<>> THEN Raise("ValueError: Input DataFrame is empty")
    ELSE LET adv == create_advanced_features(df) IN
         IF adv.raised THEN adv
         ELSE LET t == IF HasCol(adv.value, "Order_Year") THEN adv.value
                       ELSE create_temporal_features(adv.value, now)
                  x == create_interaction_features(t)
                  enc == encode_categorical_features(x, now)
              IN SelectCols(enc, required_model_features)

\* The caller's frame after transform(df): create_advanced_features works on
\* df.copy() and every later step on that copy.
TransformInputAfter(df, now) == df

(***************************************************************************)
(* Model artifacts.  A model is opaque: the agent probes it with hasattr    *)
(* and calls predict_proba or predict; what a call returns is an input.    *)
(***************************************************************************)
\* The columns of the frame health_check builds "using the actual feature names
\* from the trained model".
health_check_columns ==
    <<"Product_Category", "Product_Price", "Order_Quantity", "Return_Reason", "User_Age",
      "User_Gender", "Payment_Method", "Shipping_Method", "Discount_Applied",
      "Total_Order_Value", "Order_Year", "Order_Month", "Order_Weekday",
      "User_Location_Num">>

\* Deserialized models the artifact store can hold: a forest trained on the 18
\* engineered columns, one trained on the 14 raw columns, and a classifier with
\* neither predict_proba nor feature names.
Forest18 ==
    [type |-> "RandomForestClassifier", has_predict_proba |-> TRUE,
     feature_names_in_ |-> Some(required_model_features), has_importances |-> TRUE]
Forest14 ==
    [type |-> "RandomForestClassifier", has_predict_proba |-> TRUE,
     feature_names_in_ |-> Some(health_check_columns), has_importances |-> TRUE]
LabelOnly ==
    [type |-> "LinearSVC", has_predict_proba |-> FALSE,
     feature_names_in_ |-> None, has_importances |-> FALSE]
\* The class _create_dummy_model defines.
DummyModel ==
    [type |-> "DummyModel", has_predict_proba |-> TRUE,
     feature_names_in_ |-> None, has_importances |-> FALSE]

TrainedModels == {Forest18, Forest14, LabelOnly}

\* Probabilities a trained model may answer with: both sides of every threshold.
ProbValues ==
    {0, Prob(30), Prob(30) + 1, Prob(50), Prob(50) + 1, Prob(60), Prob(60) + 1, Prob(100)}

\* What one call of a trained model does: it raises, or it returns the class
\* probabilities of the row (one entry for a model fitted on one class) and the
\* label predict gives for them.
ModelOutcomes ==
    {[raises |-> TRUE, probabilities |-> <<>>, label |-> 0]}
    \cup {[raises |-> FALSE, probabilities |-> <<Prob(100) - p, p>>,
           label |-> IF p > Prob(50) THEN 1 ELSE 0] : p \in ProbValues}
    \cup {[raises |-> FALSE, probabilities |-> <<Prob(100)>>, label |-> l] : l \in {0, 1}}

\* A plain dict handed over where a DataFrame is expected: it has no columns and
\* no iterrows, and a model cannot read it as a 2-D array, so every model call
\* on it raises.
RawDict(o) == [cols |-> <<>>, row |-> <<>>, dict |-> o]
IsFrame(X) == "dict" \notin DOMAIN X

\* DummyModel.predict_proba on one row
DummyProba(X) ==
    LET price == GetCol(X, "Product_Price", GetCol(X, "price", 10000))
        age == GetCol(X, "User_Age", GetCol(X, "age", 30))
        category == GetCol(X, "Product_Category", 1)
        quantity == GetCol(X, "Order_Quantity", GetCol(X, "quantity", 1))
        base_prob == Prob(65)
        price_factor == Min(Prob(8), price * 4)           \* min(0.08, price / 2500)
        age_factor == Max(0, (40 - age) * 2000)           \* max(0, (40 - age) / 500)
        category_factor == IF category = 1 THEN Prob(2) ELSE Prob(1)
        quantity_factor == Min(Prob(2), (quantity - 1) * Prob(1))
    IN  Min(Prob(75), base_prob + price_factor + age_factor + category_factor
                      + quantity_factor)

\* model.predict_proba(X)[0] / model.predict(X)[0]: the dummy model computes its
\* answer from the row, a trained model answers with the outcome given.
ModelCall(model, X, outcome) ==
    IF ~IsFrame(X) THEN [raises |-> TRUE, probabilities |-> <<>>, label |-> 0]
    ELSE IF model.type = "DummyModel"
    THEN LET p == DummyProba(X)
         IN [raises |-> FALSE, probabilities |-> <<Prob(100) - p, p>>,
             label |-> IF p > Prob(50) THEN 1 ELSE 0]
    ELSE outcome

(***************************************************************************)
(* ModelInferenceAgent (services/agents/model_inference.py)                *)
(***************************************************************************)
NoAgent == [loaded |-> FALSE, primary_model |-> None, fallback_model |-> None,
            model_metadata |-> <<>>, load_count |-> 0]

\* The states of a model file: missing, zero-length, not deserializable, or
\* holding a model; and of model_metrics.json: missing, zero-length, not JSON,
\* not readable as text (open/read raises something other than JSONDecodeError
\* or FileNotFoundError), or holding the metrics document.
ModelFiles ==
    {[file |-> f, model |-> None] : f \in {"missing", "empty", "corrupt"}}
    \cup {[file |-> "ok", model |-> Some(m)] : m \in TrainedModels}
MetadataFiles == {"missing", "empty", "invalid_json", "unreadable", "ok"}
Disks == [primary : ModelFiles, fallback : ModelFiles, metadata : MetadataFiles]

metrics_document == ("primary" :> "forest metrics") @@ ("fallback" :> "fallback metrics")
dummy_metadata == ("primary" :> "DummyModel metrics")

\* One "load a slot" block: the model when the file exists, is not empty and
\* unpickles; None otherwise.
LoadSlot(f) == IF f.file = "ok" THEN f.model ELSE None

\* _create_dummy_model: the dummy becomes the primary model, with its own metadata
CreateNoModel(agent) == agent

create_dummy_model(agent) ==
    [agent EXCEPT !.primary_model = Some(DummyModel), !.model_metadata = dummy_metadata]

\* _load_models on a fresh agent
load_models(agent, disk) ==
    LET a1 == [agent EXCEPT !.primary_model = LoadSlot(disk.primary)]
        a2 == [a1 EXCEPT !.fallback_model = LoadSlot(disk.fallback)]
    IN  IF disk.metadata = "unreadable"
        THEN \* the exception leaves the inner try and reaches the outer handler
             create_dummy_model(a2)
        ELSE LET a3 == [a2 EXCEPT !.model_metadata =
                           IF disk.metadata = "ok" THEN metrics_document ELSE <<>>]
             IN IF IsNone(a3.primary_model) /\ IsNone(a3.fallback_model)
                THEN create_dummy_model(a3) ELSE a3

\* ModelInferenceAgent(): __init__ then _load_models
NewInferenceAgent(disk) ==
    load_models([loaded |-> TRUE, primary_model |-> None, fallback_model |-> None,
                 model_metadata |-> <<>>, load_count |-> 1], disk)

\* The thresholds of predict_single
RiskLevelLowerExclusive(p) ==
    IF p < Prob(30) THEN "LOW" ELSE IF p < Prob(60) THEN "MEDIUM" ELSE "HIGH"

risk_level_of(p) ==
    IF p <= Prob(30) THEN "LOW" ELSE IF p <= Prob(60) THEN "MEDIUM" ELSE "HIGH"

binary_prediction(p) == p > Prob(50)

SeqMax(s) == CHOOSE x \in Range(s) : \A y \in Range(s) : y <= x

FailureResultLowRisk(error, calls) ==
    [success |-> FALSE, error |-> error,
     prediction |-> [will_return |-> FALSE, return_probability |-> 0,
                     risk_level |-> "LOW", confidence_score |-> 0],
     model_info |-> None, metadata |-> "", calls |-> calls]

\* The dict of the outer except branch
FailureResult(error, calls) ==
    [success |-> FALSE, error |-> error,
     prediction |-> [will_return |-> FALSE, return_probability |-> 0,
                     risk_level |-> "UNKNOWN", confidence_score |-> 0],
     model_info |-> None, metadata |-> "", calls |-> calls]

RawLabelPlusOne(model, r) ==
    IF model.has_predict_proba
    THEN (IF Len(r.probabilities) > 1 THEN r.probabilities[2] ELSE r.probabilities[1])
    ELSE (r.label + 1) * Prob(100)

\* probabilities[1] (the only entry of a one-class answer), or float(prediction)
\* of a model without predict_proba
raw_return_probability(model, r) ==
    IF model.has_predict_proba
    THEN (IF Len(r.probabilities) > 1 THEN r.probabilities[2] ELSE r.probabilities[1])
    ELSE r.label * Prob(100)

\* The dict built after a model answered
SuccessResult(agent, model, model_name, r, calls) ==
    LET \* _adjust_probability_to_business_range returns its argument
        return_probability == raw_return_probability(model, r)
    IN  [success |-> TRUE, error |-> "",
         prediction |-> [will_return |-> binary_prediction(return_probability),
                         return_probability |-> return_probability,
                         risk_level |-> risk_level_of(return_probability),
                         confidence_score |-> IF model.has_predict_proba
                                              THEN SeqMax(r.probabilities)
                                              ELSE Prob(80)],
         model_info |-> Some([model_used |-> model_name, model_type |-> model.type]),
         metadata |-> DictGet(agent.model_metadata, model_name, ""),
         calls |-> calls]

NeverTriesFallback(agent, use_fallback) == FALSE

\* Whether predict_single goes on to the fallback slot after the selected one
\* was absent or raised.
TriesFallback(agent, use_fallback) ==
    ~use_fallback /\ ~IsNone(agent.fallback_model)

\* predict_single going back to the primary model after the fallback raised
PredictSingleRetryingPrimary(agent, X, use_fallback, out, calls) ==
    LET p == agent.primary_model
        f == agent.fallback_model
        call(slot, m, r) == [slot |-> slot, columns |-> X.cols,
                             expects |-> m.feature_names_in_, raised |-> r.raises]
    IN  IF IsNone(p) \/ IsNone(f)
        THEN FailureResult("No models available for prediction", calls)
        ELSE LET rp == ModelCall(Val(p), X, out["primary"])
                 rf == ModelCall(Val(f), X, out["fallback"])
                 cp == call("primary", Val(p), rp)
                 cf == call("fallback", Val(f), rf)
             IN IF ~rp.raises
                THEN SuccessResult(agent, Val(p), "primary", rp, Append(calls, cp))
                ELSE IF ~rf.raises
                THEN SuccessResult(agent, Val(f), "fallback", rf, calls \o <<cp, cf>>)
                ELSE FailureResult("model error", calls \o <<cp, cf, cp>>)

\* ModelInferenceAgent.predict_single(X, use_fallback).  out gives the outcome of
\* a call of each slot's model; calls is the record of the model calls made so
\* far, each with the slot, the columns of the frame it was given, the
\* feature_names_in_ of the model called and whether it raised.
RECURSIVE predict_single(_, _, _, _, _)
predict_single(agent, X, use_fallback, out, calls) ==
    LET model_name == IF use_fallback THEN "fallback" ELSE "primary"
        model == IF use_fallback THEN agent.fallback_model ELSE agent.primary_model
    IN  IF IsNone(model)
        THEN IF TriesFallback(agent, use_fallback)
             THEN predict_single(agent, X, TRUE, out, calls)
             ELSE FailureResult("No models available for prediction", calls)
        ELSE LET r == ModelCall(Val(model), X, out[model_name])
                 made == Append(calls, [slot |-> model_name, columns |-> X.cols,
                                        expects |-> Val(model).feature_names_in_,
                                        raised |-> r.raises])
             IN IF r.raises
                THEN IF TriesFallback(agent, use_fallback)
                     THEN predict_single(agent, X, TRUE, out, made)
                     ELSE FailureResult("model error", made)
                ELSE SuccessResult(agent, Val(model), model_name, r, made)

\* The value to_inference gives a column the frame lacks: 0 when the name
\* contains 'Flag' or 'Season', 1.0 when it contains 'Ratio' or 'Avg', else 0;
\* over the column names of the model
InferenceDefault(col) ==
    IF col \in {"Season", "Holiday_Season", "Back_To_School_Season", "Spring_Season",
                "Clothing_Category_Flag"}
    THEN 0
    ELSE IF col \in {"Discount_Price_Ratio", "Avg_Price_Per_Item"} THEN Frac(1, 1)
    ELSE 0

\* 'for col in expected_columns: if col not in df.columns: df[col] = default'
\* followed by 'df = df[expected_columns]'
AlignColumns(df, expected_columns) ==
    Bind(SelectSeq(expected_columns, LAMBDA c : ~HasCol(df, c)), LAMBDA missing :
    SelectCols(SetCols(df, missing, [c \in Range(missing) |-> InferenceDefault(c)]),
               expected_columns).value)

\* FeatureEngineeringAgent.to_inference(df, inference_agent): the expected
\* columns are those of 'primary_model or fallback_model'
to_inference(df, agent, out) ==
    Bind(IF ~IsNone(agent.primary_model) THEN agent.primary_model
         ELSE agent.fallback_model, LAMBDA model :
    predict_single(agent,
                   IF ~IsNone(model) /\ ~IsNone(Val(model).feature_names_in_)
                   THEN AlignColumns(df, Val(Val(model).feature_names_in_))
                   ELSE df,
                   FALSE, out, <<>>))

\* ModelInferenceAgent.predict_batch: the loop from the sample at index i (from
\* 1) on; sample_id counts from 0.  predict_single catches what the models
\* raise, so the loop's own except branch is not entered.
RECURSIVE predict_batch(_, _, _, _)
predict_batch(agent, preprocessed_features_list, i, outs) ==
    IF i > Len(preprocessed_features_list) THEN <<>>
    ELSE Bind(predict_single(agent, preprocessed_features_list[i], FALSE, outs[i], <<>>),
              LAMBDA result :
         <<[sample_id |-> i - 1, success |-> result.success, error |-> result.error,
            prediction |-> result.prediction, model_info |-> result.model_info,
            calls |-> result.calls]>>
         \o predict_batch(agent, preprocessed_features_list, i + 1, outs))

\* ModelInferenceAgent.get_model_info
get_model_info(agent) ==
    [primary_model |-> [loaded |-> ~IsNone(agent.primary_model),
                        type |-> IF IsNone(agent.primary_model) THEN ""
                                 ELSE Val(agent.primary_model).type],
     fallback_model |-> [loaded |-> ~IsNone(agent.fallback_model),
                         type |-> IF IsNone(agent.fallback_model) THEN ""
                                  ELSE Val(agent.fallback_model).type],
     metadata |-> agent.model_metadata]

\* The frame health_check predicts on
health_check_frame ==
    SetCols(EmptyFrame, health_check_columns,
            [Product_Category |-> 1, Product_Price |-> 19999, Order_Quantity |-> 1,
             Return_Reason |-> 0, User_Age |-> 30, User_Gender |-> 1,
             Payment_Method |-> 1, Shipping_Method |-> 1, Discount_Applied |-> 0,
             Total_Order_Value |-> 19999, Order_Year |-> 2024, Order_Month |-> 6,
             Order_Weekday |-> 2, User_Location_Num |-> 1])

\* ModelInferenceAgent.health_check: predict_single returns a failure dict rather
\* than raising, and the result is not looked at, so the except branch
\* ('unhealthy') is not entered.  result_success and calls record the success
\* flag and the model calls of the test prediction.
health_check(agent, out) ==
    Bind(predict_single(agent, health_check_frame, FALSE, out, <<>>), LAMBDA result :
    [status |-> "healthy",
     models_loaded |-> [primary |-> ~IsNone(agent.primary_model),
                        fallback |-> ~IsNone(agent.fallback_model)],
     test_prediction |-> "successful",
     result_success |-> result.success,
     calls |-> result.calls])

(***************************************************************************)
(* OrderProcessingAgent.process_single_order                               *)
(***************************************************************************)
\* Order ids: the caller's, or "ORD_<timestamp>_<count:04d>"
GivenOrderId(text) == [kind |-> "given", text |-> text, ts |-> 0, n |-> 0]
GeneratedOrderId(ts, n) == [kind |-> "ORD", text |-> "", ts |-> ts, n |-> n]

NoError == [kind |-> "", fields |-> <<>>]
ErrorOf(kind, fields) == [kind |-> kind, fields |-> fields]

\* The result dict; processed_count is the agent's counter after the call.
process_single_order(order_data, processed_count, now) ==
    LET count == processed_count + 1
        order_id == IF ~IsNone(order_data.order_id)
                    THEN GivenOrderId(Val(order_data.order_id))
                    ELSE GeneratedOrderId(now.ts, count)
        v == validate_order_data(order_data)
    IN  IF ~v.is_valid
        THEN [success |-> FALSE, error |-> ErrorOf("Validation error", v.error_msg),
              order_id |-> order_id, validated_data |-> <<>>, features |-> EmptyFrame,
              processed_count |-> count]
        ELSE [success |-> TRUE, error |-> NoError, order_id |-> order_id,
              validated_data |-> v.validated_data,
              features |-> extract_basic_features(v.validated_data, now),
              processed_count |-> count]

(***************************************************************************)
(* OrderProcessingAgent.process_batch_orders                               *)
(***************************************************************************)
\* The id the batch loop writes into an order that has none:
\* "batch_<i:03d>_<timestamp>"
BatchOrderId(i, ts) == [kind |-> "batch", text |-> "", ts |-> ts, n |-> i]

\* A loop that stops at the first order that fails
RECURSIVE ProcessBatchRowsAborting(_, _, _, _)
ProcessBatchRowsAborting(orders_list, i, processed_count, now) ==
    IF i > Len(orders_list)
    THEN [results |-> <<>>, processed_count |-> processed_count]
    ELSE Bind(process_single_order(orders_list[i], processed_count, now), LAMBDA r :
         IF ~r.success THEN [results |-> <<r>>, processed_count |-> r.processed_count]
         ELSE Bind(ProcessBatchRowsAborting(orders_list, i + 1, r.processed_count, now),
                   LAMBDA rest :
              [results |-> <<r>> \o rest.results,
               processed_count |-> rest.processed_count]))

\* The loop over the orders from row i on: the result dicts in row order and the
\* agent's counter after the last row.  process_single_order takes the id the
\* loop wrote as the caller's id.
RECURSIVE ProcessBatchRows(_, _, _, _)
ProcessBatchRows(orders_list, i, processed_count, now) ==
    IF i > Len(orders_list)
    THEN [results |-> <<>>, processed_count |-> processed_count]
    ELSE Bind(process_single_order(orders_list[i], processed_count, now), LAMBDA r :
         Bind(ProcessBatchRows(orders_list, i + 1, r.processed_count, now), LAMBDA rest :
         [results |->
              <<IF IsNone(orders_list[i].order_id)
                THEN [r EXCEPT !.order_id = BatchOrderId(i, now.ts)] ELSE r>>
              \o rest.results,
          processed_count |-> rest.processed_count]))

process_batch_orders(orders_list, processed_count, now) ==
    Bind(ProcessBatchRows(orders_list, 1, processed_count, now), LAMBDA b :
    [success |-> TRUE,
     batch_size |-> Len(orders_list),
     successful_count |-> Cardinality({i \in 1..Len(b.results) : b.results[i].success}),
     failed_count |-> Cardinality({i \in 1..Len(b.results) : ~b.results[i].success}),
     results |-> b.results,
     processed_count |-> b.processed_count])

(***************************************************************************)
(* The prediction store (services/utils/supabase_service.py)               *)
(***************************************************************************)
\* What an insert does when the store is enabled: a row comes back, no row
\* comes back, or the client raises (store_prediction catches it).
StoreOutcomes == {"stored", "no_data", "error"}

StorePredictionRaising(st, outcome) ==
    IF ~st.enabled THEN [store |-> st, returned |-> FALSE, raised |-> FALSE]
    ELSE IF outcome = "stored"
         THEN [store |-> [st EXCEPT !.rows = @ + 1], returned |-> TRUE, raised |-> FALSE]
         ELSE [store |-> st, returned |-> FALSE, raised |-> outcome = "error"]

\* store_prediction: the store after the call, whether a row was returned and
\* whether the call raised to its caller (the insert is inside a try whose
\* handler returns None, so it never does)
store_prediction(st, outcome) ==
    IF ~st.enabled THEN [store |-> st, returned |-> FALSE, raised |-> FALSE]
    ELSE IF outcome = "stored"
         THEN [store |-> [st EXCEPT !.rows = @ + 1], returned |-> TRUE, raised |-> FALSE]
         ELSE [store |-> st, returned |-> FALSE, raised |-> FALSE]

(***************************************************************************)
(* Request schemas of the endpoints (checked before the handler runs)      *)
(***************************************************************************)
\* prediction.PredictionRequest: 0 <= age <= 120, seven fields only
PredictionRequestOk(o) ==
    /\ o.price > 0
    /\ o.quantity > 0
    /\ AgeInRangeLax(o)
    /\ o.gender \in allowed_genders

\* prediction_request.model_dump(): the keys the schema does not declare are gone
PredictionRequestDump(o) ==
    [o EXCEPT !.discount_applied = None, !.shipping_method = None,
              !.order_date = None, !.order_id = None, !.total_order_value = None]

\* order_processing.OrderProcessingRequest: 18 <= age <= 100, gender unchecked
OrderProcessingRequestOk(o) ==
    /\ o.price > 0
    /\ o.quantity > 0
    /\ AgeInRange(o)
    /\ (IsNone(o.discount_applied)
        \/ (Val(o.discount_applied) >= 0 /\ Val(o.discount_applied) <= 100))

OrderProcessingRequestDump(o) == [o EXCEPT !.total_order_value = None]

(***************************************************************************)
(* services/api/order_processing.py helpers                                *)
(***************************************************************************)
determine_risk_level(probability) ==
    IF probability <= Prob(30) THEN "LOW"
    ELSE IF probability <= Prob(60) THEN "MEDIUM" ELSE "HIGH"

\* features is the basic feature dict, whose keys are capitalised
get_recommendations(risk_level, features) ==
    IF risk_level = "HIGH"
    THEN <<"Consider manual review before fulfillment",
           "Verify product description and customer expectations">>
         \o (IF GetCol(features, "total_order_value", 0) > 20000
             THEN <<"Consider requiring signature on delivery">> ELSE <<>>)
    ELSE IF risk_level = "MEDIUM"
         THEN <<"Monitor order for potential issues", "Ensure quality packaging">>
         ELSE <<"Process normally", "Standard fulfillment recommended">>

(***************************************************************************)
(* Responses                                                               *)
(***************************************************************************)
NoPrediction == [will_return |-> FALSE, return_probability |-> 0,
                 risk_level |-> "", confidence_score |-> 0]

\* A response, with what the handler did on the way: the frame it engineered,
\* the model calls made through predict_single and the store call; and with the
\* clock reading and the model outcomes the request was served under; batch is
\* the body of a batch response, body the dict an agent-level call returned.
Response(endpoint, o, status, success, error) ==
    [endpoint |-> endpoint, order |-> o, status |-> status, success |-> success,
     error |-> error, order_id |-> None, validated_data |-> None,
     has_prediction |-> FALSE,
     prediction |-> NoPrediction, risk_level |-> "", recommendations |-> <<>>,
     features |-> EmptyFrame, engineered |-> EmptyFrame, model_info |-> None,
     calls |-> <<>>, store_called |-> FALSE, store_returned |-> FALSE,
     clock |-> None, outcomes |-> None, batch |-> None, body |-> None]

(***************************************************************************)
(* Inputs: raw orders, model outcomes                                      *)
(***************************************************************************)
\* The scenario order of the specification: 199.99 USD, one item, age 28.
BaseOrder ==
    [price |-> 19999, quantity |-> 1, product_category |-> "Electronics",
     gender |-> "Female", payment_method |-> "Credit Card", age |-> 28,
     location |-> "Urban", discount_applied |-> None, shipping_method |-> None,
     order_date |-> None, order_id |-> None, total_order_value |-> None]

\* Other values of the fields: both sides of every bound and threshold, a known
\* and an unknown value of every categorical field.
FieldValues ==
    {<<"price", 0>>, <<"price", 9000>>, <<"price", 25000>>,
     <<"quantity", 0>>, <<"quantity", 3>>,
     <<"product_category", "Clothing">>, <<"product_category", "Gadgets">>,
     <<"gender", "Other">>, <<"gender", "Unknown">>,
     <<"payment_method", "Cash">>, <<"payment_method", "Crypto">>,
     <<"age", 17>>, <<"age", 18>>, <<"age", 45>>, <<"age", 100>>, <<"age", 101>>,
     <<"age", 121>>,
     <<"discount_applied", Some(0)>>, <<"discount_applied", Some(25)>>,
     <<"discount_applied", Some(150)>>, <<"discount_applied", Some(0 - 5)>>,
     <<"shipping_method", Some("Express")>>, <<"shipping_method", Some("Drone")>>,
     <<"order_date", Some("2024-06-12")>>, <<"order_date", Some("12/06/2024")>>,
     <<"order_id", Some("A17")>>,
     <<"total_order_value", Some(1)>>}

\* The orders that differ from BaseOrder in at most k fields.
RECURSIVE OrdersWith(_)
OrdersWith(k) ==
    IF k = 0 THEN {BaseOrder}
    ELSE LET prev == OrdersWith(k - 1)
         IN prev \cup {[o EXCEPT ![d[1]] = d[2]] : o \in prev, d \in FieldValues}

MaxOddFields == 2
Orders == OrdersWith(MaxOddFields)
ValidOrders == {o \in Orders : validate_order_data(o).is_valid}

\* The requests sent to the endpoints: the scenario order and its variants in
\* one field.
EndpointFieldValues ==
    {<<"price", 25000>>, <<"quantity", 3>>, <<"product_category", "Gadgets">>,
     <<"gender", "Unknown">>, <<"age", 17>>, <<"age", 101>>, <<"age", 121>>,
     <<"discount_applied", Some(25)>>, <<"discount_applied", Some(150)>>,
     <<"order_id", Some("A17")>>}
EndpointOrders ==
    {BaseOrder} \cup {[BaseOrder EXCEPT ![d[1]] = d[2]] : d \in EndpointFieldValues}

\* The basic feature frame of a valid order, and the frame transform makes of it
BasicFrame(o, now) == extract_basic_features(validate_order_data(o).validated_data, now)
EngineeredFrame(o, now) == transform(BasicFrame(o, now), now).value

RaisingOutcome == [raises |-> TRUE, probabilities |-> <<>>, label |-> 0]

\* The outcomes of the calls one predict_single can make: the fallback model is
\* called only after the primary was absent or raised.
OutcomePairs ==
    {[primary |-> p, fallback |-> RaisingOutcome] : p \in ModelOutcomes \ {RaisingOutcome}}
    \cup {[primary |-> RaisingOutcome, fallback |-> f] : f \in ModelOutcomes}

\* The outcomes used at the endpoints: every answer of the primary model, and a
\* raising primary model followed by a fallback that raises or answers.
EndpointOutcomePairs ==
    {[primary |-> p, fallback |-> RaisingOutcome] : p \in ModelOutcomes \ {RaisingOutcome}}
    \cup {[primary |-> RaisingOutcome, fallback |-> f] :
             f \in {RaisingOutcome,
                    [raises |-> FALSE, probabilities |-> <<Prob(30), Prob(70)>>, label |-> 1]}}

\* The artifact stores the service is started over in the endpoint runs.
EndpointDisks ==
    {[primary |-> [file |-> "ok", model |-> Some(Forest18)],
      fallback |-> [file |-> "ok", model |-> Some(LabelOnly)], metadata |-> "ok"],
     [primary |-> [file |-> "ok", model |-> Some(Forest14)],
      fallback |-> [file |-> "ok", model |-> Some(Forest18)], metadata |-> "ok"],
     [primary |-> [file |-> "missing", model |-> None],
      fallback |-> [file |-> "ok", model |-> Some(Forest18)], metadata |-> "ok"],
     [primary |-> [file |-> "missing", model |-> None],
      fallback |-> [file |-> "empty", model |-> None], metadata |-> "ok"]}

\* The bodies sent to /orders/batch-process: no order, one order, two orders;
\* an order of gender "Unknown" passes the request schema and fails OrderData.
BatchRequests ==
    {<<>>,
     <<BaseOrder>>,
     <<[BaseOrder EXCEPT !.gender = "Unknown"]>>,
     <<[BaseOrder EXCEPT !.age = 17]>>,
     <<BaseOrder, BaseOrder>>,
     <<[BaseOrder EXCEPT !.gender = "Unknown"], BaseOrder>>,
     <<[BaseOrder EXCEPT !.order_id = Some("A17")], [BaseOrder EXCEPT !.price = 25000]>>}

\* The outcomes of the model calls made for one row of a batch
BatchOutcomePairs ==
    {[primary |-> [raises |-> FALSE, probabilities |-> <<Prob(30), Prob(70)>>, label |-> 1],
      fallback |-> RaisingOutcome],
     [primary |-> [raises |-> FALSE, probabilities |-> <<Prob(80), Prob(20)>>, label |-> 0],
      fallback |-> RaisingOutcome],
     [primary |-> RaisingOutcome, fallback |-> RaisingOutcome]}

\* The outcomes of the model calls made for one row of a file: the primary model
\* answers, or both models raise
JobOutcomePairs ==
    {[primary |-> [raises |-> FALSE, probabilities |-> <<Prob(30), Prob(70)>>, label |-> 1],
      fallback |-> RaisingOutcome],
     [primary |-> RaisingOutcome, fallback |-> RaisingOutcome]}

\* The lists handed to predict_batch: engineered frames of valid orders
BatchFrames ==
    {<<>>,
     <<EngineeredFrame(BaseOrder, [ts |-> 1, year |-> 2025, month |-> 7, weekday |-> 0])>>,
     <<EngineeredFrame(BaseOrder, [ts |-> 1, year |-> 2025, month |-> 7, weekday |-> 0]),
       EngineeredFrame([BaseOrder EXCEPT !.price = 25000],
                       [ts |-> 1, year |-> 2025, month |-> 7, weekday |-> 0])>>}

\* The bodies sent to /predict/batch; gender "Unknown" fails the request schema
\* and age 17 passes it.
PredictBatchRequests ==
    {<<>>,
     <<BaseOrder>>,
     <<[BaseOrder EXCEPT !.age = 17]>>,
     <<[BaseOrder EXCEPT !.gender = "Unknown"]>>,
     <<BaseOrder, [BaseOrder EXCEPT !.price = 25000]>>}

InitialResponse == Response("", BaseOrder, 0, FALSE, NoError)

(***************************************************************************)
(* POST /predict/single (services/api/prediction.py)                       *)
(***************************************************************************)
predict_single_endpoint(o, agent, ocount, fcount, st, now, out, store_outcome) ==
    Bind(process_single_order(PredictionRequestDump(o), ocount, now),
         LAMBDA processed_result :
    IF ~processed_result.success
    THEN [resp |-> [Response("/predict/single", o, 200, FALSE, processed_result.error)
                      EXCEPT !.order_id = Some(processed_result.order_id)],
          ocount |-> processed_result.processed_count, fcount |-> fcount,
          store |-> st]
    ELSE Bind(transform(processed_result.features, now), LAMBDA final_data :
    IF final_data.raised
    THEN \* the handler's except branch
         [resp |-> [Response("/predict/single", o, 200, FALSE,
                             ErrorOf("Prediction failed", <<>>))
                      EXCEPT !.order_id = Some(processed_result.order_id),
                             !.features = processed_result.features],
          ocount |-> processed_result.processed_count, fcount |-> fcount,
          store |-> st]
    ELSE Bind(predict_single(agent, final_data.value, FALSE, out, <<>>),
              LAMBDA prediction_result :
    IF ~prediction_result.success
    THEN [resp |-> [Response("/predict/single", o, 200, FALSE,
                             ErrorOf(prediction_result.error, <<>>))
                      EXCEPT !.order_id = Some(processed_result.order_id),
                             !.features = processed_result.features,
                             !.engineered = final_data.value,
                             !.calls = prediction_result.calls],
          ocount |-> processed_result.processed_count, fcount |-> fcount + 1,
          store |-> st]
    ELSE Bind(store_prediction(st, store_outcome), LAMBDA stored :
    IF st.enabled /\ stored.raised
    THEN \* the handler's except branch
         [resp |-> [Response("/predict/single", o, 200, FALSE,
                             ErrorOf("Prediction failed", <<>>))
                      EXCEPT !.order_id = Some(processed_result.order_id),
                             !.features = processed_result.features,
                             !.engineered = final_data.value,
                             !.calls = prediction_result.calls,
                             !.store_called = TRUE],
          ocount |-> processed_result.processed_count, fcount |-> fcount + 1,
          store |-> stored.store]
    ELSE [resp |-> [Response("/predict/single", o, 200, TRUE, NoError)
                      EXCEPT !.order_id = Some(processed_result.order_id),
                             !.features = processed_result.features,
                             !.engineered = final_data.value,
                             !.calls = prediction_result.calls,
                             !.has_prediction = TRUE,
                             !.prediction = prediction_result.prediction,
                             !.model_info = prediction_result.model_info,
                             !.store_called = st.enabled,
                             !.store_returned = st.enabled /\ stored.returned],
          ocount |-> processed_result.processed_count, fcount |-> fcount + 1,
          store |-> IF st.enabled THEN stored.store ELSE st]))))

(***************************************************************************)
(* POST /orders/process (services/api/order_processing.py)                 *)
(***************************************************************************)
process_order(o, agent, ocount, fcount, st, now, out, store_outcome) ==
    Bind(process_single_order(OrderProcessingRequestDump(o), ocount, now),
         LAMBDA processing_result :
    IF ~processing_result.success
    THEN [resp |-> [Response("/orders/process", o, 200, FALSE, processing_result.error)
                      EXCEPT !.order_id = Some(processing_result.order_id)],
          ocount |-> processing_result.processed_count, fcount |-> fcount,
          store |-> st]
    ELSE Bind(transform(processing_result.features, now), LAMBDA engineered :
    IF engineered.raised
    THEN \* the handler's except branch: HTTPException(500)
         [resp |-> Response("/orders/process", o, 500, FALSE,
                            ErrorOf("Error processing order", <<>>)),
          ocount |-> processing_result.processed_count, fcount |-> fcount,
          store |-> st]
    ELSE Bind(predict_single(agent, engineered.value, FALSE, out, <<>>),
              LAMBDA prediction_result :
    IF ~prediction_result.success
    THEN [resp |-> [Response("/orders/process", o, 200, FALSE,
                             ErrorOf("Prediction failed", <<>>))
                      EXCEPT !.order_id = Some(processing_result.order_id),
                             !.engineered = engineered.value,
                             !.calls = prediction_result.calls],
          ocount |-> processing_result.processed_count, fcount |-> fcount + 1,
          store |-> st]
    ELSE Bind(determine_risk_level(prediction_result.prediction.return_probability),
              LAMBDA risk_level :
         Bind(store_prediction(st, store_outcome), LAMBDA stored :
    IF stored.raised
    THEN \* the handler's except branch: HTTPException(500)
         [resp |-> [Response("/orders/process", o, 500, FALSE,
                             ErrorOf("Error processing order", <<>>))
                      EXCEPT !.engineered = engineered.value,
                             !.calls = prediction_result.calls,
                             !.store_called = TRUE],
          ocount |-> processing_result.processed_count, fcount |-> fcount + 1,
          store |-> stored.store]
    ELSE [resp |-> [Response("/orders/process", o, 200, TRUE, NoError)
                      EXCEPT !.order_id = Some(processing_result.order_id),
                             !.features = processing_result.features,
                             !.engineered = engineered.value,
                             !.calls = prediction_result.calls,
                             !.has_prediction = TRUE,
                             !.prediction = prediction_result.prediction,
                             !.model_info = prediction_result.model_info,
                             !.risk_level = risk_level,
                             !.recommendations =
                                 get_recommendations(risk_level,
                                                     processing_result.features),
                             !.store_called = TRUE,
                             !.store_returned = stored.returned],
          ocount |-> processing_result.processed_count, fcount |-> fcount + 1,
          store |-> stored.store])))))

(***************************************************************************)
(* POST /predict/batch (services/api/prediction.py)                        *)
(***************************************************************************)
\* features_list = [pred.dict() for pred in request.predictions] goes to
\* agent.predict_batch as it is; the results become PredictionResponses.
predict_batch_endpoint(orders, agent) ==
    Bind(predict_batch(agent, [i \in 1..Len(orders) |->
                                  RawDict(PredictionRequestDump(orders[i]))], 1,
                       [i \in 1..Len(orders) |->
                           [primary |-> [raises |-> TRUE, probabilities |-> <<>>, label |-> 0],
                            fallback |-> [raises |-> TRUE, probabilities |-> <<>>,
                                          label |-> 0]]]),
         LAMBDA results :
    [Response("/predict/batch", BaseOrder, 200, TRUE, NoError)
       EXCEPT !.batch =
           Some([orders |-> orders,
                 results |-> [i \in 1..Len(results) |->
                                 [success |-> results[i].success,
                                  prediction |-> IF results[i].success
                                                 THEN results[i].prediction
                                                 ELSE NoPrediction,
                                  has_prediction |-> results[i].success,
                                  calls |-> results[i].calls]],
                 successful_predictions |->
                     Cardinality({i \in 1..Len(results) : results[i].success}),
                 failed_predictions |->
                     Len(orders) - Cardinality({i \in 1..Len(results) :
                                                   results[i].success})])])

(***************************************************************************)
(* POST /orders/batch-process (services/api/order_processing.py)           *)
(***************************************************************************)
\* One entry of the results list (an OrderProcessingResponse), with the model
\* calls made for the row.
RowResponse(order_id, success, error) ==
    [success |-> success, order_id |-> order_id, error |-> error,
     has_prediction |-> FALSE, prediction |-> NoPrediction, risk_level |-> "",
     recommendations |-> <<>>, features |-> EmptyFrame, calls |-> <<>>]

\* The body of the loop over batch_result['results'] for one result
BatchRow(result, agent, now, out) ==
    IF ~result.success
    THEN [row |-> RowResponse(result.order_id, FALSE, result.error), transformed |-> 0]
    ELSE Bind(transform(result.features, now), LAMBDA engineered :
    IF engineered.raised
    THEN [row |-> RowResponse(result.order_id, FALSE, ErrorOf("Processing error", <<>>)),
          transformed |-> 0]
    ELSE Bind(predict_single(agent, engineered.value, FALSE, out, <<>>),
              LAMBDA prediction_result :
    IF ~prediction_result.success
    THEN [row |-> [RowResponse(result.order_id, FALSE, ErrorOf("Prediction failed", <<>>))
                     EXCEPT !.calls = prediction_result.calls],
          transformed |-> 1]
    ELSE Bind(determine_risk_level(prediction_result.prediction.return_probability),
              LAMBDA risk_level :
         [row |-> [RowResponse(result.order_id, TRUE, NoError)
                     EXCEPT !.has_prediction = TRUE,
                            !.prediction = prediction_result.prediction,
                            !.features = result.features,
                            !.risk_level = risk_level,
                            !.recommendations =
                                get_recommendations(risk_level, result.features),
                            !.calls = prediction_result.calls],
          transformed |-> 1])))

\* The loop from result i on: the responses in order and the rows transformed
RECURSIVE BatchRows(_, _, _, _, _)
BatchRows(results, i, agent, now, outs) ==
    IF i > Len(results) THEN [rows |-> <<>>, transformed |-> 0]
    ELSE Bind(BatchRow(results[i], agent, now, outs[i]), LAMBDA r :
         Bind(BatchRows(results, i + 1, agent, now, outs), LAMBDA rest :
         [rows |-> <<r.row>> \o rest.rows,
          transformed |-> r.transformed + rest.transformed]))

process_batch_orders_endpoint(orders, agent, ocount, fcount, now, outs) ==
    Bind(process_batch_orders([i \in 1..Len(orders) |->
                                  OrderProcessingRequestDump(orders[i])],
                              ocount, now), LAMBDA batch_result :
    Bind(BatchRows(batch_result.results, 1, agent, now, outs), LAMBDA b :
    IF batch_result.batch_size = 0
    THEN \* processing_success_rate divides by the batch size: the handler's except
         \* branch, HTTPException(500)
         [resp |-> Response("/orders/batch-process", BaseOrder, 500, FALSE,
                            ErrorOf("Error processing batch orders", <<>>)),
          ocount |-> batch_result.processed_count, fcount |-> fcount + b.transformed]
    ELSE [resp |-> [Response("/orders/batch-process", BaseOrder, 200, TRUE, NoError)
                      EXCEPT !.batch = Some([orders |-> orders,
                                             batch_size |-> batch_result.batch_size,
                                             successful_count |->
                                                 batch_result.successful_count,
                                             failed_count |-> batch_result.failed_count,
                                             results |-> b.rows])],
          ocount |-> batch_result.processed_count, fcount |-> fcount + b.transformed]))

(***************************************************************************)
(* Actions                                                                 *)
(***************************************************************************)
MaxProcessed == 2

\* A get_inference_agent that constructs an agent on every call
GetInferenceAgentReloading(agent, disk) ==
    [NewInferenceAgent(disk) EXCEPT !.load_count = agent.load_count + 1]

\* get_inference_agent(): constructs the agent (and loads the models) on the
\* first call, returns the same agent afterwards
get_inference_agent(agent, disk) ==
    IF ~agent.loaded THEN NewInferenceAgent(disk) ELSE agent

\* The response has been handed to the caller; the next call can be made.
ReturnResponse ==
    /\ resp # InitialResponse
    /\ resp' = InitialResponse
    /\ UNCHANGED <<inference_agent, order_processed_count, feature_processed_count, store>>
    /\ UNCHANGED job_vars

GetInferenceAgent ==
    /\ ~inference_agent.loaded
    /\ \E disk \in EndpointDisks :
          inference_agent' = get_inference_agent(inference_agent, disk)
    /\ UNCHANGED <<order_processed_count, feature_processed_count, store, resp>>
    /\ UNCHANGED job_vars

\* A request the framework rejects against the schema never reaches the handler.
PredictSingleEndpoint ==
    /\ resp = InitialResponse
    /\ inference_agent.loaded
    /\ order_processed_count < MaxProcessed
    /\ \E o \in EndpointOrders, now \in Clock, out \in EndpointOutcomePairs,
          store_outcome \in StoreOutcomes :
          IF ~PredictionRequestOk(o)
          THEN /\ resp' = Response("/predict/single", o, 422, FALSE,
                                   ErrorOf("Unprocessable Entity", <<>>))
               /\ UNCHANGED <<order_processed_count, feature_processed_count, store>>
          ELSE LET r == predict_single_endpoint(o, inference_agent,
                            order_processed_count, feature_processed_count, store,
                            now, out, store_outcome)
               IN /\ resp' = [r.resp EXCEPT !.clock = Some(now), !.outcomes = Some(out)]
                  /\ order_processed_count' = r.ocount
                  /\ feature_processed_count' = r.fcount
                  /\ store' = r.store
    /\ UNCHANGED inference_agent
    /\ UNCHANGED job_vars

ProcessOrderEndpoint ==
    /\ resp = InitialResponse
    /\ inference_agent.loaded
    /\ order_processed_count < MaxProcessed
    /\ \E o \in EndpointOrders, now \in Clock, out \in EndpointOutcomePairs,
          store_outcome \in StoreOutcomes :
          IF ~OrderProcessingRequestOk(o)
          THEN /\ resp' = Response("/orders/process", o, 422, FALSE,
                                   ErrorOf("Unprocessable Entity", <<>>))
               /\ UNCHANGED <<order_processed_count, feature_processed_count, store>>
          ELSE LET r == process_order(o, inference_agent,
                            order_processed_count, feature_processed_count, store,
                            now, out, store_outcome)
               IN /\ resp' = [r.resp EXCEPT !.clock = Some(now), !.outcomes = Some(out)]
                  /\ order_processed_count' = r.ocount
                  /\ feature_processed_count' = r.fcount
                  /\ store' = r.store
    /\ UNCHANGED inference_agent
    /\ UNCHANGED job_vars

\* now and out are the clock reading and the answers the models give on a
\* DataFrame while the request is served.
PredictBatchEndpoint ==
    /\ resp = InitialResponse
    /\ inference_agent.loaded
    /\ \E orders \in PredictBatchRequests, now \in Clock, out \in BatchOutcomePairs :
          IF \E i \in 1..Len(orders) : ~PredictionRequestOk(orders[i])
          THEN resp' = Response("/predict/batch", BaseOrder, 422, FALSE,
                                ErrorOf("Unprocessable Entity", <<>>))
          ELSE resp' = [predict_batch_endpoint(orders, inference_agent)
                          EXCEPT !.clock = Some(now), !.outcomes = Some(out)]
    /\ UNCHANGED <<inference_agent, order_processed_count, feature_processed_count, store>>
    /\ UNCHANGED job_vars

\* The handler makes no call of the prediction store.
ProcessBatchOrdersEndpoint ==
    /\ resp = InitialResponse
    /\ inference_agent.loaded
    /\ \E orders \in BatchRequests, now \in Clock :
          /\ order_processed_count + Len(orders) <= MaxProcessed
          /\ \E outs \in [1..Len(orders) -> BatchOutcomePairs] :
                IF \E i \in 1..Len(orders) : ~OrderProcessingRequestOk(orders[i])
                THEN /\ resp' = Response("/orders/batch-process", BaseOrder, 422, FALSE,
                                         ErrorOf("Unprocessable Entity", <<>>))
                     /\ UNCHANGED <<order_processed_count, feature_processed_count>>
                ELSE LET r == process_batch_orders_endpoint(orders, inference_agent,
                                  order_processed_count, feature_processed_count,
                                  now, outs)
                     IN /\ resp' = [r.resp EXCEPT !.clock = Some(now)]
                        /\ order_processed_count' = r.ocount
                        /\ feature_processed_count' = r.fcount
    /\ UNCHANGED <<inference_agent, store>>
    /\ UNCHANGED job_vars

\* The service: the process starts with no agent constructed; the prediction
\* store is configured or not.
Init ==
    /\ batch_jobs = <<>>
    /\ tasks = <<>>
    /\ inference_agent = NoAgent
    /\ order_processed_count = 0
    /\ feature_processed_count = 0
    /\ store \in {[enabled |-> e, rows |-> 0] : e \in BOOLEAN}
    /\ resp = InitialResponse

Next ==
    \/ GetInferenceAgent
    \/ PredictSingleEndpoint
    \/ ProcessOrderEndpoint
    \/ PredictBatchEndpoint
    \/ ProcessBatchOrdersEndpoint
    \/ ReturnResponse

Spec == Init /\ [][Next]_vars

(***************************************************************************)
(* The order pipeline alone: validate, extract, engineer                   *)
(***************************************************************************)
ValidateOrderData ==
    /\ resp = InitialResponse
    /\ \E o \in Orders :
          LET v == validate_order_data(o)
          IN resp' = [Response("validate_order_data", o, 0, v.is_valid,
                               ErrorOf(IF v.is_valid THEN "" ELSE "Validation error",
                                       v.error_msg))
                        EXCEPT !.validated_data =
                                  IF v.is_valid THEN Some(v.validated_data) ELSE None]
    /\ UNCHANGED <<inference_agent, order_processed_count, feature_processed_count, store>>
    /\ UNCHANGED job_vars

ProcessSingleOrder ==
    /\ resp = InitialResponse
    /\ order_processed_count < MaxProcessed
    /\ \E o \in Orders, now \in Clock :
          LET r == process_single_order(o, order_processed_count, now)
          IN /\ resp' = [Response("process_single_order", o, 0, r.success, r.error)
                           EXCEPT !.order_id = Some(r.order_id),
                                  !.validated_data =
                                      IF r.success THEN Some(r.validated_data) ELSE None,
                                  !.features = r.features]
             /\ order_processed_count' = r.processed_count
    /\ UNCHANGED <<inference_agent, feature_processed_count, store>>
    /\ UNCHANGED job_vars

Transform ==
    /\ resp = InitialResponse
    /\ feature_processed_count < MaxProcessed
    /\ \E o \in ValidOrders, now \in Clock :
          LET df == BasicFrame(o, now)
              t == transform(df, now)
          IN /\ resp' = [Response("transform", o, 0, ~t.raised, ErrorOf(t.error, <<>>))
                           EXCEPT !.features = df,
                                  !.engineered = IF t.raised THEN EmptyFrame ELSE t.value]
             /\ feature_processed_count' =
                    IF t.raised THEN feature_processed_count
                    ELSE feature_processed_count + 1
    /\ UNCHANGED <<inference_agent, order_processed_count, store>>
    /\ UNCHANGED job_vars

InitOrder ==
    /\ batch_jobs = <<>>
    /\ tasks = <<>>
    /\ inference_agent = NoAgent
    /\ order_processed_count = 0
    /\ feature_processed_count = 0
    /\ store = [enabled |-> FALSE, rows |-> 0]
    /\ resp = InitialResponse

NextOrder ==
    \/ ValidateOrderData
    \/ ProcessSingleOrder
    \/ Transform
    \/ ReturnResponse

SpecOrder == InitOrder /\ [][NextOrder]_vars

(***************************************************************************)
(* The inference agent alone: constructed over any artifact store, then    *)
(* asked for predictions on engineered frames                              *)
(***************************************************************************)
\* The frames handed to predict_single: the engineered frames of the valid
\* orders that differ from the scenario order in one field.
InferFrames ==
    {EngineeredFrame(o, now) :
        o \in {v \in OrdersWith(1) : validate_order_data(v).is_valid}, now \in Clock}

PredictSingleCall ==
    /\ resp = InitialResponse
    /\ \E X \in InferFrames, out \in OutcomePairs :
          LET r == predict_single(inference_agent, X, FALSE, out, <<>>)
          IN resp' = [Response("predict_single", BaseOrder, 0, r.success,
                               ErrorOf(r.error, <<>>))
                        EXCEPT !.engineered = X,
                               !.has_prediction = TRUE,
                               !.prediction = r.prediction,
                               !.model_info = r.model_info,
                               !.calls = r.calls]
    /\ UNCHANGED <<inference_agent, order_processed_count, feature_processed_count, store>>
    /\ UNCHANGED job_vars

InitInfer ==
    /\ batch_jobs = <<>>
    /\ tasks = <<>>
    /\ inference_agent \in {NewInferenceAgent(disk) : disk \in Disks}
    /\ order_processed_count = 0
    /\ feature_processed_count = 0
    /\ store = [enabled |-> FALSE, rows |-> 0]
    /\ resp = InitialResponse

PredictBatchCall ==
    /\ resp = InitialResponse
    /\ inference_agent.loaded
    /\ \E frames \in BatchFrames :
          \E outs \in [1..Len(frames) -> JobOutcomePairs] :
             resp' = [Response("predict_batch", BaseOrder, 0, TRUE, NoError)
                        EXCEPT !.batch = Some([frames |-> frames, outs |-> outs,
                                               results |-> predict_batch(inference_agent,
                                                               frames, 1, outs)])]
    /\ UNCHANGED <<inference_agent, order_processed_count, feature_processed_count, store>>
    /\ UNCHANGED job_vars

\* A later call of get_inference_agent(), whatever the artifact store holds by
\* then
GetInferenceAgentCall ==
    /\ resp = InitialResponse
    /\ \E disk \in EndpointDisks :
          /\ inference_agent' = get_inference_agent(inference_agent, disk)
          /\ resp' = [Response("get_inference_agent", BaseOrder, 0, TRUE, NoError)
                        EXCEPT !.body = Some(disk)]
    /\ UNCHANGED <<order_processed_count, feature_processed_count, store>>
    /\ UNCHANGED job_vars

HealthCheck ==
    /\ resp = InitialResponse
    /\ \E out \in JobOutcomePairs :
          resp' = [Response("health_check", BaseOrder, 0, TRUE, NoError)
                     EXCEPT !.body = Some(health_check(inference_agent, out))]
    /\ UNCHANGED <<inference_agent, order_processed_count, feature_processed_count, store>>
    /\ UNCHANGED job_vars

\* fe_agent.to_inference(engineered_features, inference_agent)
ToInference ==
    /\ resp = InitialResponse
    /\ \E X \in InferFrames, out \in OutcomePairs :
          LET r == to_inference(X, inference_agent, out)
          IN resp' = [Response("to_inference", BaseOrder, 0, r.success,
                               ErrorOf(r.error, <<>>))
                        EXCEPT !.engineered = X,
                               !.has_prediction = TRUE,
                               !.prediction = r.prediction,
                               !.model_info = r.model_info,
                               !.calls = r.calls]
    /\ UNCHANGED <<inference_agent, order_processed_count, feature_processed_count, store>>
    /\ UNCHANGED job_vars

GetModelInfo ==
    /\ resp = InitialResponse
    /\ resp' = [Response("get_model_info", BaseOrder, 0, TRUE, NoError)
                 EXCEPT !.body = Some(get_model_info(inference_agent))]
    /\ UNCHANGED <<inference_agent, order_processed_count, feature_processed_count, store>>
    /\ UNCHANGED job_vars

NextInfer ==
    \/ PredictSingleCall
    \/ PredictBatchCall
    \/ GetInferenceAgentCall
    \/ HealthCheck
    \/ GetModelInfo
    \/ ToInference
    \/ ReturnResponse

SpecInfer == InitInfer /\ [][NextInfer]_vars

(***************************************************************************)
(* Batch-file jobs (services/api/prediction.py): upload, background task,  *)
(* status poll                                                             *)
(***************************************************************************)
\* validate_csv_file on the rows read from the file
validate_csv_file(rows) ==
    /\ rows # <<>>
    /\ \A i \in 1..Len(rows) :
          rows[i].price > 0 /\ rows[i].quantity > 0 /\ AgeInRangeLax(rows[i])

\* The uploaded files: their rows, as orders of the seven required columns
BatchFiles ==
    {<<>>,
     <<[BaseOrder EXCEPT !.age = 121]>>,
     <<[BaseOrder EXCEPT !.age = 17]>>,
     <<[BaseOrder EXCEPT !.age = 17], BaseOrder>>,
     <<BaseOrder, [BaseOrder EXCEPT !.gender = "Unknown"]>>}

\* The agents the jobs run under: both models loaded, or the dummy model only
JobDisks ==
    {[primary |-> [file |-> "ok", model |-> Some(Forest18)],
      fallback |-> [file |-> "ok", model |-> Some(LabelOnly)], metadata |-> "ok"],
     [primary |-> [file |-> "missing", model |-> None],
      fallback |-> [file |-> "empty", model |-> None], metadata |-> "ok"]}

\* str(uuid.uuid4()): an id no job has yet
JobIds == {"job-1", "job-2"}
ReusedJobId(jobs) == CHOOSE id \in JobIds : TRUE
NewJobId(jobs) == CHOOSE id \in JobIds : id \notin DOMAIN jobs

\* batch_jobs[job_id] as upload_batch_file initialises it; progress_percentage
\* is a fraction num/den; status_writes lists the values assigned to status so
\* far, in order
NewJob(job_id, df) ==
    [job_id |-> job_id, status |-> "pending", total_records |-> Len(df),
     processed_records |-> 0, failed_records |-> 0,
     progress_percentage |-> [num |-> 0, den |-> 1], results_available |-> FALSE,
     results |-> <<>>, status_writes |-> <<"pending">>]

\* The locals of a background task: its arguments, its own OrderProcessingAgent
\* (order_count), the loop index, failed_count and predictions; pc is where it
\* stands: added, sleeping in asyncio.sleep, or finished.
NewTask(job_id, df) ==
    [job_id |-> job_id, df |-> df, order_count |-> 0, index |-> 0,
     failed_count |-> 0, predictions |-> <<>>, pc |-> "added"]

\* An entry of predictions; order_id is the id process_single_order attached to
\* the row and outcome the model outcomes the row was predicted under.
JobEntry(index, success, error, prediction, order_id, out) ==
    [row_index |-> index + 1, success |-> success, error |-> error,
     prediction |-> prediction, order_id |-> order_id, outcome |-> out]

\* The body of the loop for the row at index: the entry it appends, whether it
\* went through the except branch, and the task's order counter afterwards.
JobRow(row, index, agent, order_count, now, out) ==
    Bind(process_single_order(PredictionRequestDump(row), order_count, now),
         LAMBDA processed_result :
    IF ~processed_result.success
    THEN [entry |-> JobEntry(index, FALSE, "Data conversion error", NoPrediction,
                             processed_result.order_id, out),
          excepted |-> TRUE, order_count |-> processed_result.processed_count]
    ELSE Bind(transform(processed_result.features, now), LAMBDA final_data :
    IF final_data.raised
    THEN [entry |-> JobEntry(index, FALSE, "Data conversion error", NoPrediction,
                             processed_result.order_id, out),
          excepted |-> TRUE, order_count |-> processed_result.processed_count]
    ELSE Bind(predict_single(agent, final_data.value, FALSE, out, <<>>), LAMBDA result :
         [entry |-> JobEntry(index, result.success, result.error,
                             IF result.success THEN result.prediction ELSE NoPrediction,
                             processed_result.order_id, out),
          excepted |-> FALSE, order_count |-> processed_result.processed_count])))

\* 'if index % 100 == 0: await asyncio.sleep(0.1)'
SleepEvery == 100

\* process_batch_predictions from the row at task.index to the next await or to
\* the end of the task; job is batch_jobs[job_id].
RECURSIVE RunRows(_, _, _, _, _)
RunRows(task, job, agent, now, outs) ==
    IF task.index >= Len(task.df)
    THEN [task |-> [task EXCEPT !.pc = "finished"],
          job |-> [job EXCEPT !.status = "completed", !.results = task.predictions,
                              !.results_available = TRUE,
                              !.status_writes = Append(job.status_writes, "completed")]]
    ELSE Bind(JobRow(task.df[task.index + 1], task.index, agent, task.order_count,
                     now, outs[task.index + 1]), LAMBDA r :
         Bind(task.failed_count + (IF r.entry.success THEN 0 ELSE 1), LAMBDA failed_count :
         Bind([task EXCEPT !.index = task.index + 1, !.failed_count = failed_count,
                           !.predictions = Append(task.predictions, r.entry),
                           !.order_count = r.order_count], LAMBDA t :
         Bind(IF r.excepted
              THEN [job EXCEPT !.failed_records = failed_count]
              ELSE [job EXCEPT !.processed_records = task.index + 1,
                               !.failed_records = failed_count,
                               !.progress_percentage =
                                   [num |-> (task.index + 1) * 100,
                                    den |-> Len(task.df)]], LAMBDA j :
         IF ~r.excepted /\ task.index % SleepEvery = 0
         THEN [task |-> [t EXCEPT !.pc = "sleeping"], job |-> j]
         ELSE RunRows(t, j, agent, now, outs)))))

\* process_batch_predictions starting over from the first row each time the task
\* is resumed after its sleep
TaskRestartsOnResume(task, job, agent, now, outs) ==
    RunRows(IF task.pc = "sleeping"
            THEN NewTask(task.job_id, task.df)
            ELSE task,
            IF task.pc = "added"
            THEN [job EXCEPT !.status = "processing",
                             !.status_writes = Append(job.status_writes, "processing")]
            ELSE job,
            agent, now, outs)

process_batch_predictions(task, job, agent, now, outs) ==
    RunRows(task,
            IF task.pc = "added"
            THEN [job EXCEPT !.status = "processing",
                             !.status_writes = Append(job.status_writes, "processing")]
            ELSE job,
            agent, now, outs)

\* POST /predict/batch/upload
UploadBatchFile ==
    /\ resp = InitialResponse
    /\ inference_agent.loaded
    /\ DOMAIN batch_jobs # JobIds
    /\ \E df \in BatchFiles :
          IF ~validate_csv_file(df)
          THEN /\ resp' = Response("/predict/batch/upload", BaseOrder, 400, FALSE,
                                   ErrorOf("Bad Request", <<>>))
               /\ UNCHANGED job_vars
          ELSE LET job_id == NewJobId(batch_jobs)
               IN /\ batch_jobs' = [k \in DOMAIN batch_jobs \cup {job_id} |->
                                       IF k = job_id THEN NewJob(job_id, df)
                                       ELSE batch_jobs[k]]
                  /\ tasks' = Append(tasks, NewTask(job_id, df))
                  /\ resp' = [Response("/predict/batch/upload", BaseOrder, 200, TRUE,
                                       NoError)
                                EXCEPT !.batch = Some([job_id |-> job_id,
                                                       total_records |-> Len(df)])]
    /\ UNCHANGED <<inference_agent, order_processed_count, feature_processed_count, store>>

\* Task t is in the event loop's ready queue: added and not yet started, or
\* woken from its sleep
TaskReady(t) == t \in 1..Len(tasks) /\ tasks[t].pc \in {"added", "sleeping"}

\* The event loop runs background task t up to its next await
RunTaskOf(t) ==
    /\ TaskReady(t)
    /\ \E now \in Clock, outs \in [1..Len(tasks[t].df) -> JobOutcomePairs] :
          LET r == process_batch_predictions(tasks[t], batch_jobs[tasks[t].job_id],
                                             inference_agent, now, outs)
          IN /\ tasks' = [tasks EXCEPT ![t] = r.task]
             /\ batch_jobs' = [batch_jobs EXCEPT ![tasks[t].job_id] = r.job]
    /\ UNCHANGED <<inference_agent, order_processed_count, feature_processed_count, store,
                   resp>>

RunTask == \E t \in 1..Cardinality(JobIds) : RunTaskOf(t)

\* GET /predict/batch/{job_id}
GetBatchStatus ==
    /\ resp = InitialResponse
    /\ \E job_id \in JobIds :
          IF job_id \notin DOMAIN batch_jobs
          THEN resp' = Response("/predict/batch/{job_id}", BaseOrder, 404, FALSE,
                                ErrorOf("Job not found", <<>>))
          ELSE resp' = [Response("/predict/batch/{job_id}", BaseOrder, 200, TRUE, NoError)
                          EXCEPT !.batch =
                              Some([job_id |-> job_id,
                                    status |-> batch_jobs[job_id].status,
                                    total_records |-> batch_jobs[job_id].total_records,
                                    processed_records |->
                                        batch_jobs[job_id].processed_records,
                                    failed_records |-> batch_jobs[job_id].failed_records])]
    /\ UNCHANGED <<inference_agent, order_processed_count, feature_processed_count, store>>
    /\ UNCHANGED job_vars

\* A results endpoint that returns whatever the job holds, whatever its status
GetBatchResultsAnyStatus(jobs, job_id) ==
    IF job_id \notin DOMAIN jobs THEN [status_code |-> 404, results |-> None]
    ELSE [status_code |-> 200, results |-> Some(jobs[job_id].results)]

\* get_batch_results(job_id): the HTTP status and, for 200, the results returned
get_batch_results(jobs, job_id) ==
    IF job_id \notin DOMAIN jobs THEN [status_code |-> 404, results |-> None]
    ELSE IF jobs[job_id].status # "completed" THEN [status_code |-> 400, results |-> None]
    ELSE IF ~jobs[job_id].results_available THEN [status_code |-> 404, results |-> None]
    ELSE [status_code |-> 200, results |-> Some(jobs[job_id].results)]

\* GET /predict/batch/{job_id}/results
GetBatchResults ==
    /\ resp = InitialResponse
    /\ \E job_id \in JobIds :
          LET r == get_batch_results(batch_jobs, job_id)
          IN resp' = [Response("/predict/batch/{job_id}/results", BaseOrder,
                               r.status_code, r.status_code = 200, NoError)
                        EXCEPT !.batch = Some([job_id |-> job_id, results |-> r.results])]
    /\ UNCHANGED <<inference_agent, order_processed_count, feature_processed_count, store>>
    /\ UNCHANGED job_vars

InitBatch ==
    /\ batch_jobs = <<>>
    /\ tasks = <<>>
    /\ inference_agent \in {NewInferenceAgent(disk) : disk \in JobDisks}
    /\ order_processed_count = 0
    /\ feature_processed_count = 0
    /\ store = [enabled |-> FALSE, rows |-> 0]
    /\ resp = InitialResponse

NextBatch ==
    \/ UploadBatchFile
    \/ RunTask
    \/ GetBatchStatus
    \/ GetBatchResults
    \/ ReturnResponse

SpecBatch == InitBatch /\ [][NextBatch]_vars

\* Uploads and their background tasks alone
NextJobs ==
    \/ UploadBatchFile
    \/ RunTask
    \/ ReturnResponse

\* The event loop resumes every task that is ready: a task added by
\* background_tasks.add_task or woken from asyncio.sleep is eventually run.
\* This is weak fairness of RunTaskOf(t), WF_vars(RunTaskOf(t)), with
\* ENABLED <<RunTaskOf(t)>>_vars written out as TaskReady(t): a ready task has a
\* run for every clock value and outcome, and a run changes its pc or its index.
SpecJobsFair ==
    /\ InitBatch
    /\ [][NextJobs]_vars
    /\ \A t \in 1..Cardinality(JobIds) :
          <>[]TaskReady(t) => []<><<RunTaskOf(t)>>_vars

(***************************************************************************)
(* The batch variants one at a time: the agents' batch calls and one       *)
(* batch-file job                                                          *)
(***************************************************************************)
ProcessBatchOrders ==
    /\ resp = InitialResponse
    /\ \E orders \in BatchRequests, now \in Clock :
          /\ order_processed_count + Len(orders) <= MaxProcessed
          /\ LET r == process_batch_orders(orders, order_processed_count, now)
             IN /\ resp' = [Response("process_batch_orders", BaseOrder, 0, r.success,
                                     NoError)
                              EXCEPT !.clock = Some(now),
                                     !.batch = Some([orders |-> orders,
                                                     batch_size |-> r.batch_size,
                                                     successful_count |-> r.successful_count,
                                                     failed_count |-> r.failed_count,
                                                     results |-> r.results])]
                /\ order_processed_count' = r.processed_count
    /\ UNCHANGED <<inference_agent, feature_processed_count, store>>
    /\ UNCHANGED job_vars

\* The upload of the first file
UploadOneFile ==
    /\ batch_jobs = <<>>
    /\ UploadBatchFile

NextRows ==
    \/ ProcessBatchOrders
    \/ PredictBatchCall
    \/ UploadOneFile
    \/ RunTask
    \/ ReturnResponse

SpecRows == InitBatch /\ [][NextRows]_vars

(***************************************************************************)
(* Properties                                                              *)
(***************************************************************************)
\* C1: on the prediction paths, every frame handed to a model that declares
\* feature_names_in_ has exactly the declared columns, in the declared order.
C1_FrameHasDeclaredColumns ==
    \A i \in 1..Len(resp.calls) :
        ~IsNone(resp.calls[i].expects) =>
            resp.calls[i].columns = Val(resp.calls[i].expects)

\* C2: predict_single calls the primary model first when it is loaded, and a
\* primary answer without error is the result (model_used = 'primary'); the
\* fallback model is called only after the primary was absent or raised, it is
\* called then when it is loaded, and its answer carries model_used = 'fallback'.
C2_PrimaryThenFallback ==
    resp.endpoint = "predict_single" =>
        LET calls == resp.calls
            a == inference_agent
        IN  /\ ~IsNone(a.primary_model) =>
                  Len(calls) >= 1 /\ calls[1].slot = "primary"
            /\ (Len(calls) >= 1 /\ calls[1].slot = "primary" /\ ~calls[1].raised) =>
                  /\ resp.success
                  /\ Len(calls) = 1
                  /\ Val(resp.model_info).model_used = "primary"
            /\ \A i \in 1..Len(calls) :
                  calls[i].slot = "fallback" =>
                      \/ i = 1 /\ IsNone(a.primary_model)
                      \/ i = 2 /\ calls[1].slot = "primary" /\ calls[1].raised
            /\ (~IsNone(a.fallback_model)
                /\ (IsNone(a.primary_model) \/ calls[1].raised)) =>
                  Len(calls) >= 1 /\ calls[Len(calls)].slot = "fallback"
            /\ (resp.success /\ calls[Len(calls)].slot = "fallback") =>
                  Val(resp.model_info).model_used = "fallback"

\* C2 witness: the primary model raised, the fallback model answered and the
\* result names the fallback.
C2_Witness ==
    /\ resp.endpoint = "predict_single"
    /\ resp.success
    /\ Len(resp.calls) = 2
    /\ resp.calls[1].slot = "primary" /\ resp.calls[1].raised
    /\ Val(resp.model_info).model_used = "fallback"

\* C3: predict_single always returns a result; it is a failure exactly when no
\* model produced a prediction, and a failure carries an error, will_return
\* false, return_probability 0, confidence_score 0 and risk_level 'UNKNOWN'.
C3_FailureResultIsNeutral ==
    resp.endpoint = "predict_single" =>
        /\ resp.success \in BOOLEAN
        /\ ~resp.success <=>
              (resp.calls = <<>> \/ resp.calls[Len(resp.calls)].raised)
        /\ ~resp.success =>
              /\ resp.error.kind # ""
              /\ resp.prediction = [will_return |-> FALSE, return_probability |-> 0,
                                    risk_level |-> "UNKNOWN", confidence_score |-> 0]

\* C3 witness: both the primary and the fallback model raised and the call
\* returned the failure result.
C3_Witness ==
    /\ resp.endpoint = "predict_single"
    /\ ~resp.success
    /\ Len(resp.calls) = 2
    /\ resp.calls[1].raised /\ resp.calls[2].raised
    /\ resp.prediction.risk_level = "UNKNOWN"

\* C4: when no trained model is in either slot (neither artifact loaded),
\* predict_single on the engineered frame of a valid order succeeds with the
\* dummy model's answer: a boolean will_return, return_probability in [0,1],
\* risk_level LOW, MEDIUM or HIGH, and a confidence_score.
C4_DummyModelAnswers ==
    (/\ resp.endpoint = "predict_single"
     /\ IsNone(inference_agent.fallback_model)
     /\ inference_agent.primary_model \notin {Some(m) : m \in TrainedModels}) =>
        /\ resp.success
        /\ resp.prediction.will_return \in BOOLEAN
        /\ resp.prediction.return_probability >= 0
        /\ resp.prediction.return_probability <= Prob(100)
        /\ resp.prediction.risk_level \in {"LOW", "MEDIUM", "HIGH"}
        /\ resp.prediction.confidence_score >= 0
        /\ resp.prediction.confidence_score <= Prob(100)
        /\ Val(resp.model_info).model_type = "DummyModel"
        /\ resp.prediction.return_probability = DummyProba(resp.engineered)

\* C4 witness: an agent constructed with no loadable artifact answered a
\* prediction through the dummy model.
C4_Witness ==
    /\ resp.endpoint = "predict_single"
    /\ IsNone(inference_agent.fallback_model)
    /\ inference_agent.primary_model = Some(DummyModel)
    /\ inference_agent.model_metadata = dummy_metadata
    /\ resp.success
    /\ Len(resp.calls) = 1

\* C5: in every successful result risk_level is LOW iff p <= 0.3, MEDIUM iff
\* 0.3 < p <= 0.6, HIGH iff p > 0.6, and will_return iff p > 0.5; the risk
\* level /orders/process attaches equals the one in the inference result.
C5_RiskThresholds ==
    (resp.has_prediction /\ resp.success) =>
        LET p == resp.prediction.return_probability
        IN  /\ resp.prediction.risk_level = "LOW" <=> p <= Prob(30)
            /\ resp.prediction.risk_level = "MEDIUM" <=> (p > Prob(30) /\ p <= Prob(60))
            /\ resp.prediction.risk_level = "HIGH" <=> p > Prob(60)
            /\ resp.prediction.will_return <=> p > Prob(50)
            /\ resp.endpoint = "/orders/process" =>
                  resp.risk_level = resp.prediction.risk_level

\* C5 witness: /orders/process answered a prediction whose probability is
\* exactly 0.3, with risk level LOW.
C5_Witness ==
    /\ resp.endpoint = "/orders/process"
    /\ resp.success
    /\ resp.has_prediction
    /\ resp.prediction.return_probability = Prob(30)
    /\ resp.risk_level = "LOW"

C7_TotalOrderValueRecomputed ==
    /\ (resp.endpoint = "process_single_order" /\ resp.success) =>
          resp.features.row["Total_Order_Value"] =
              resp.order.price * resp.order.quantity
    /\ (resp.endpoint = "transform" /\ resp.success) =>
          /\ resp.features.row["Total_Order_Value"] =
                resp.order.price * resp.order.quantity
          /\ resp.engineered.row["Total_Order_Value"] =
                resp.order.price * resp.order.quantity

\* C7 witness: an order of three items that carries total_order_value = 1 was
\* engineered, with Total_Order_Value three times the price.
C7_Witness ==
    /\ resp.endpoint = "transform"
    /\ resp.success
    /\ resp.order.quantity = 3
    /\ resp.order.total_order_value = Some(1)
    /\ resp.engineered.row["Total_Order_Value"] = 3 * resp.order.price

\* C8: validate_order_data accepts an order iff price > 0, quantity >= 1,
\* 18 <= age <= 100, 0 <= discount <= 100 and gender is Male, Female or Other;
\* the error of a rejection names exactly the violated fields.
C8_ValidationNamesEveryViolation ==
    resp.endpoint = "validate_order_data" =>
        LET o == resp.order
            violated ==
                (IF o.price > 0 THEN {} ELSE {"price"})
                \cup (IF o.quantity >= 1 THEN {} ELSE {"quantity"})
                \cup (IF o.age >= 18 /\ o.age <= 100 THEN {} ELSE {"age"})
                \cup (IF o.discount_applied = <<>>
                         \/ (o.discount_applied[1] >= 0 /\ o.discount_applied[1] <= 100)
                      THEN {} ELSE {"discount_applied"})
                \cup (IF o.gender \in {"Male", "Female", "Other"} THEN {} ELSE {"gender"})
        IN  /\ resp.success <=> violated = {}
            /\ ~resp.success => Range(resp.error.fields) = violated

\* C8 witness: an order with age 17 and discount 150 was rejected with an error
\* naming both fields.
C8_Witness ==
    /\ resp.endpoint = "validate_order_data"
    /\ ~resp.success
    /\ resp.order.age = 17
    /\ resp.order.discount_applied = Some(150)
    /\ Range(resp.error.fields) = {"age", "discount_applied"}

\* C9: a /predict/single request whose age lies in 0..120 is not failed because
\* of its age.
C9_LaxAgeIsProcessed ==
    (/\ resp.endpoint = "/predict/single"
     /\ resp.status = 200
     /\ resp.order.age >= 0 /\ resp.order.age <= 120) =>
        "age" \notin Range(resp.error.fields)

\* C10: an unrecognized product_category, payment_method or shipping_method is
\* never a reason of rejection; validation keeps category and payment method
\* unchanged and extraction encodes unrecognized ones as 1; an unrecognized
\* shipping_method becomes 'Standard' and encodes as 1.
C10_UnknownCategoricalsPass ==
    resp.endpoint = "process_single_order" =>
        LET o == resp.order
        IN  /\ Range(resp.error.fields)
                 \cap {"product_category", "payment_method", "shipping_method"} = {}
            /\ ~resp.success => resp.error.fields # <<>>
            /\ resp.success =>
                  LET vd == Val(resp.validated_data)
                      f == resp.features.row
                  IN  /\ vd.product_category = o.product_category
                      /\ vd.payment_method = o.payment_method
                      /\ o.product_category \notin DOMAIN category_mapping =>
                            f["Product_Category"] = 1
                      /\ o.payment_method \notin DOMAIN payment_mapping =>
                            f["Payment_Method"] = 1
                      /\ (o.shipping_method # <<>>
                          /\ o.shipping_method[1] \notin {"Standard", "Express", "Next-Day"}) =>
                            /\ vd.shipping_method = Some("Standard")
                            /\ f["Shipping_Method"] = 1

\* C10 witness: an order with an unknown category and an unknown shipping method
\* was processed, with Product_Category 1 and Shipping_Method 1.
C10_Witness ==
    /\ resp.endpoint = "process_single_order"
    /\ resp.success
    /\ resp.order.product_category = "Gadgets"
    /\ resp.order.shipping_method = Some("Drone")
    /\ Val(resp.validated_data).shipping_method = Some("Standard")
    /\ resp.features.row["Product_Category"] = 1
    /\ resp.features.row["Shipping_Method"] = 1

\* C11: the Return_Risk_Score of the frame transform returns is 2 if price > 200
\* or age < 25, otherwise 1 if price > 100 or age < 35, otherwise 0.
C11_ReturnRiskScoreCascade ==
    (resp.endpoint = "transform" /\ resp.success) =>
        LET price == resp.order.price
            age == resp.order.age
        IN  resp.engineered.row["Return_Risk_Score"] =
                (IF price > 20000 \/ age < 25 THEN 2
                 ELSE IF price > 10000 \/ age < 35 THEN 1 ELSE 0)

\* C11 witness: the scenario order (199.99 USD, age 28) was engineered with
\* Return_Risk_Score 1.
C11_Witness ==
    /\ resp.endpoint = "transform"
    /\ resp.success
    /\ resp.order.price = 19999
    /\ resp.order.age = 28
    /\ resp.engineered.row["Return_Risk_Score"] = 1

\* C12: the success flag and the prediction of a /predict/single or
\* /orders/process response are the same whether the store is disabled, stores
\* the row, returns nothing or fails inside: serving the same request under any
\* other store gives the same status, success flag and prediction.
C12_StoreNeverChangesResponse ==
    (resp.endpoint \in {"/predict/single", "/orders/process"} /\ resp.clock # None) =>
        \A e \in BOOLEAN, so \in StoreOutcomes :
            LET st == [enabled |-> e, rows |-> 0]
                r == IF resp.endpoint = "/predict/single"
                     THEN predict_single_endpoint(resp.order, inference_agent,
                              order_processed_count - 1, 0, st, Val(resp.clock),
                              Val(resp.outcomes), so).resp
                     ELSE process_order(resp.order, inference_agent,
                              order_processed_count - 1, 0, st, Val(resp.clock),
                              Val(resp.outcomes), so).resp
            IN  /\ r.status = resp.status
                /\ r.success = resp.success
                /\ r.has_prediction = resp.has_prediction
                /\ r.prediction = resp.prediction

\* C12 witness: /predict/single answered a prediction although the enabled
\* store returned no row for it.
C12_Witness ==
    /\ resp.endpoint = "/predict/single"
    /\ resp.success
    /\ resp.has_prediction
    /\ store.enabled
    /\ resp.store_called
    /\ ~resp.store_returned

\* C13: whenever the prediction store is available, a response that carries a
\* successful prediction was preceded by a call of store_prediction, on the
\* single endpoints and on /orders/batch-process alike, and a response whose
\* prediction failed was not.
C13_StoreCalledAfterEverySuccess ==
    store.enabled =>
        /\ (resp.endpoint \in {"/predict/single", "/orders/process"} /\ resp.status = 200)
               => (resp.store_called <=> resp.has_prediction)
        /\ (resp.endpoint = "/orders/batch-process" /\ resp.batch # None)
               => (resp.store_called
                      <=> \E i \in 1..Len(Val(resp.batch).results) :
                             Val(resp.batch).results[i].success)

\* C15: the body of a /orders/batch-process response is a consistent summary:
\* successful_count + failed_count = batch_size = the number of results,
\* successful_count is the number of results whose success is true and
\* failed_count the number whose success is false.
C15_BatchSummaryConsistent ==
    (resp.endpoint = "/orders/batch-process" /\ resp.batch # None) =>
        LET b == Val(resp.batch)
            ok == {i \in 1..Len(b.results) : b.results[i].success}
        IN  /\ b.successful_count + b.failed_count = b.batch_size
            /\ b.batch_size = Len(b.results)
            /\ b.successful_count = Cardinality(ok)
            /\ b.failed_count = Len(b.results) - Cardinality(ok)

\* C17: the recommendations of a /orders/process response are determined by its
\* risk level and the order's Total_Order_Value: a HIGH-risk order above 200.00
\* gets the two HIGH recommendations and 'Consider requiring signature on
\* delivery', a HIGH-risk order at or below 200.00 gets the two only, MEDIUM and
\* LOW orders get their two fixed recommendations.
C17_RecommendationsByRiskAndValue ==
    (resp.endpoint = "/orders/process" /\ resp.has_prediction) =>
        resp.recommendations =
            IF resp.risk_level = "HIGH"
            THEN <<"Consider manual review before fulfillment",
                   "Verify product description and customer expectations">>
                 \o (IF GetCol(resp.features, "Total_Order_Value", 0) > 20000
                     THEN <<"Consider requiring signature on delivery">> ELSE <<>>)
            ELSE IF resp.risk_level = "MEDIUM"
                 THEN <<"Monitor order for potential issues", "Ensure quality packaging">>
                 ELSE <<"Process normally", "Standard fulfillment recommended">>

\* C14: in every batch variant a failing row gives a failed entry for that row
\* only.  process_batch_orders returns success with one result per order, in
\* order, failed exactly for the orders that fail validation; predict_batch
\* returns one result per sample, numbered in order, failed exactly for the
\* samples whose own prediction fails; a batch-file task has appended one entry
\* per row it has passed, numbered in order, failed exactly for the rows that
\* fail validation or prediction themselves, and ends with the job completed
\* and holding these entries.
C14_RowFailuresAreIsolated ==
    /\ (resp.endpoint = "process_batch_orders") =>
          LET b == Val(resp.batch)
          IN /\ resp.success
             /\ Len(b.results) = Len(b.orders)
             /\ \A i \in 1..Len(b.orders) :
                   b.results[i].success = validate_order_data(b.orders[i]).is_valid
    /\ (resp.endpoint = "predict_batch") =>
          LET b == Val(resp.batch)
          IN /\ Len(b.results) = Len(b.frames)
             /\ \A i \in 1..Len(b.frames) :
                   /\ b.results[i].sample_id = i - 1
                   /\ b.results[i].success =
                         predict_single(inference_agent, b.frames[i], FALSE, b.outs[i],
                                        <<>>).success
    /\ \A t \in 1..Len(tasks) :
          LET task == tasks[t]
              job == batch_jobs[task.job_id]
          IN /\ Len(task.predictions) = task.index
             /\ \A i \in 1..task.index :
                   LET o == PredictionRequestDump(task.df[i])
                   IN /\ task.predictions[i].row_index = i
                      /\ task.predictions[i].success =
                            (/\ validate_order_data(o).is_valid
                             /\ \A now \in Clock :
                                   predict_single(inference_agent, EngineeredFrame(o, now),
                                                  FALSE, task.predictions[i].outcome,
                                                  <<>>).success)
             /\ task.pc = "finished" =>
                   /\ job.status = "completed"
                   /\ job.results = task.predictions
                   /\ Len(job.results) = job.total_records

\* C14 witness: each variant has gone on after a failed row: process_batch_orders
\* and a finished batch-file job hold a failed first entry and a successful
\* second one.
C14_Witness ==
       /\ resp.endpoint = "process_batch_orders"
       /\ Len(Val(resp.batch).results) = 2
       /\ ~Val(resp.batch).results[1].success
       /\ Val(resp.batch).results[2].success
       /\ \E t \in 1..Len(tasks) :
             /\ tasks[t].pc = "finished"
             /\ Len(batch_jobs[tasks[t].job_id].results) = 2
             /\ ~batch_jobs[tasks[t].job_id].results[1].success
             /\ batch_jobs[tasks[t].job_id].results[2].success

\* C16: the order ids generated for the rows of the batch-file jobs, which are
\* submitted without one, are pairwise distinct: two different rows, of one job
\* or of two jobs that run with their own OrderProcessingAgent, never carry the
\* same id.
C16_GeneratedOrderIdsDistinct ==
    \A t, u \in 1..Len(tasks) :
        \A i \in 1..Len(tasks[t].predictions), k \in 1..Len(tasks[u].predictions) :
            (<<t, i>> # <<u, k>>) =>
                tasks[t].predictions[i].order_id # tasks[u].predictions[k].order_id

\* C18: in every step, each job keeps exactly one background task, neither its
\* processed_records nor its failed_records decreases, and a step that changes
\* one of them is a step of that job's task and of no other task.
C18_JobCountersSingleWriter ==
    [][\A id \in DOMAIN batch_jobs :
          /\ Cardinality({t \in 1..Len(tasks) : tasks[t].job_id = id}) = 1
          /\ id \in DOMAIN batch_jobs'
          /\ batch_jobs'[id].processed_records >= batch_jobs[id].processed_records
          /\ batch_jobs'[id].failed_records >= batch_jobs[id].failed_records
          /\ (\/ batch_jobs'[id].processed_records # batch_jobs[id].processed_records
              \/ batch_jobs'[id].failed_records # batch_jobs[id].failed_records)
                => /\ Len(tasks') = Len(tasks)
                   /\ \A t \in 1..Len(tasks) :
                         (tasks'[t] # tasks[t]) <=> (tasks[t].job_id = id)]_vars

\* C18 witness: two jobs in progress at once: one has counted a processed row
\* and a failed row while the task of the other sleeps after its first row.
C18_Witness ==
    \E id \in DOMAIN batch_jobs, t \in 1..Len(tasks) :
        /\ batch_jobs[id].processed_records >= 1
        /\ batch_jobs[id].failed_records >= 1
        /\ tasks[t].job_id # id
        /\ tasks[t].pc = "sleeping"
        /\ batch_jobs[tasks[t].job_id].processed_records = 1

\* C19: when the agent was constructed over an artifact store whose primary
\* model file is zero-length or cannot be deserialized, a model still takes the
\* prediction of health_check (the other slot or the dummy model), and
\* health_check returns status 'healthy' with models_loaded.primary = false.
C19_HealthyWithPrimaryNotLoaded ==
    resp.endpoint = "health_check" =>
        \A disk \in Disks :
            (inference_agent = NewInferenceAgent(disk)
             /\ disk.primary.file \in {"empty", "corrupt"}) =>
                /\ Len(Val(resp.body).calls) >= 1
                /\ Val(resp.body).status = "healthy"
                /\ ~Val(resp.body).models_loaded.primary

\* C20: the models are loaded once and read-only afterwards: no step of the
\* agent's process (predict_single, predict_batch, health_check, get_model_info,
\* a further get_inference_agent, with failing and falling-back predictions
\* among them) changes primary_model, fallback_model or model_metadata, and
\* _load_models has run once.
C20_ModelsLoadedOnceReadOnly ==
    [][/\ inference_agent'.primary_model = inference_agent.primary_model
       /\ inference_agent'.fallback_model = inference_agent.fallback_model
       /\ inference_agent'.model_metadata = inference_agent.model_metadata
       /\ inference_agent'.load_count = 1]_vars

\* C20 witness: get_inference_agent was called again while the artifact store
\* held other files than the agent was loaded from, and the agent still holds
\* what it loaded first.
C20_Witness ==
    /\ resp.endpoint = "get_inference_agent"
    /\ inference_agent # NewInferenceAgent(Val(resp.body))
    /\ inference_agent.load_count = 1

\* C21: transform is repeatable on a basic feature frame that holds its temporal
\* columns: called again on the frame it was given, under any clock reading and
\* whatever the agent's processed_count has become, it returns the same output,
\* and the frame it was given is what it was before the call.
C21_TransformRepeatable ==
    (resp.endpoint = "transform" /\ resp.success
       /\ HasCol(resp.features, "Order_Year") /\ HasCol(resp.features, "Order_Month")
       /\ HasCol(resp.features, "Order_Weekday")) =>
        \A now \in Clock :
            /\ ~transform(resp.features, now).raised
            /\ transform(resp.features, now).value = resp.engineered
            /\ TransformInputAfter(resp.features, now) = resp.features

\* C21 witness: transform has answered for a frame whose Order_Year is not the
\* year of some clock reading, and the agent has counted the call.
C21_Witness ==
    /\ resp.endpoint = "transform" /\ resp.success
    /\ feature_processed_count >= 1
    /\ \E now \in Clock : GetCol(resp.features, "Order_Year", 0) # now.year

\* C22: /predict/batch gives every item the result /predict/single gives for
\* that order alone: for a list of valid orders, item i has the success and the
\* prediction of the /predict/single response for order i under the same clock
\* reading and model answers.
C22_BatchItemEqualsSingle ==
    (resp.endpoint = "/predict/batch" /\ resp.batch # None) =>
        LET b == Val(resp.batch)
        IN (\A i \in 1..Len(b.orders) :
               validate_order_data(PredictionRequestDump(b.orders[i])).is_valid) =>
           \A i \in 1..Len(b.orders) :
               LET single == predict_single_endpoint(b.orders[i], inference_agent, 0, 0,
                                 store, Val(resp.clock), Val(resp.outcomes),
                                 "stored").resp
               IN /\ b.results[i].success = single.success
                  /\ b.results[i].prediction = single.prediction

\* C23: the values written to a job's status follow one another only as
\* pending -> processing, processing -> completed, processing -> failed or
\* pending -> failed, a step only adds writes, and a status of completed or
\* failed never changes; results_available is true only while the status is
\* completed; get_batch_results answers 404 for an unknown job id, 400 for a
\* job that is not completed, and returns results only for a completed job.
C23_JobStatusTransitions ==
    /\ [](/\ \A id \in DOMAIN batch_jobs :
               /\ batch_jobs[id].status \in {"pending", "processing", "completed", "failed"}
               /\ batch_jobs[id].results_available => batch_jobs[id].status = "completed"
          /\ (resp.endpoint = "/predict/batch/{job_id}/results") =>
                LET id == Val(resp.batch).job_id
                IN /\ (id \notin DOMAIN batch_jobs) => resp.status = 404
                   /\ (id \in DOMAIN batch_jobs /\ batch_jobs[id].status # "completed")
                         => resp.status = 400
                   /\ (Val(resp.batch).results # None) =>
                         (id \in DOMAIN batch_jobs /\ batch_jobs[id].status = "completed"))
    /\ [](\A id \in DOMAIN batch_jobs :
             LET w == batch_jobs[id].status_writes
             IN /\ batch_jobs[id].status = w[Len(w)]
                /\ w[1] = "pending"
                /\ \A k \in 1..(Len(w) - 1) :
                      <<w[k], w[k + 1]>> \in
                          {<<"pending", "processing">>, <<"processing", "completed">>,
                           <<"processing", "failed">>, <<"pending", "failed">>})
    /\ [][\A id \in DOMAIN batch_jobs :
             /\ id \in DOMAIN batch_jobs'
             /\ Len(batch_jobs'[id].status_writes) >= Len(batch_jobs[id].status_writes)
             /\ SubSeq(batch_jobs'[id].status_writes, 1, Len(batch_jobs[id].status_writes))
                   = batch_jobs[id].status_writes
             /\ batch_jobs[id].status \in {"completed", "failed"}
                   => batch_jobs'[id].status = batch_jobs[id].status]_vars

\* C23 witness: get_batch_results has answered 400 for a job in processing
\* while another job is completed with its results available.
C23_Witness ==
    /\ resp.endpoint = "/predict/batch/{job_id}/results"
    /\ resp.status = 400
    /\ batch_jobs[Val(resp.batch).job_id].status = "processing"
    /\ \E id \in DOMAIN batch_jobs :
          batch_jobs[id].status = "completed" /\ batch_jobs[id].results_available

\* C24: every job has 0 <= failed_records <= processed_records <= total_records
\* and progress_percentage = 100 * processed_records / total_records, also after
\* rows that went through the except branch.
C24_JobCountersOrdered ==
    \A id \in DOMAIN batch_jobs :
        LET j == batch_jobs[id]
        IN /\ 0 <= j.failed_records
           /\ j.failed_records <= j.processed_records
           /\ j.processed_records <= j.total_records
           /\ j.progress_percentage.num * j.total_records
                 = 100 * j.processed_records * j.progress_percentage.den

\* C25: a job whose status is completed has processed_records = total_records
\* and progress_percentage = 100, whichever rows failed.
C25_CompletedJobFullyProcessed ==
    \A id \in DOMAIN batch_jobs :
        batch_jobs[id].status = "completed" =>
            /\ batch_jobs[id].processed_records = batch_jobs[id].total_records
            /\ batch_jobs[id].progress_percentage.num
                  = 100 * batch_jobs[id].progress_percentage.den

\* C26: under the event loop's scheduling, every uploaded batch job eventually
\* has status completed or failed, whatever rows fail: no job stays pending or
\* processing forever.
C26_JobEventuallyEnds ==
    \A id \in JobIds :
        (id \in DOMAIN batch_jobs)
            ~> (id \in DOMAIN batch_jobs /\ batch_jobs[id].status \in {"completed", "failed"})

\* C26 witness: a job whose task slept after its first row and whose second row
\* failed is completed, while the task of another job is still waiting.
C26_Witness ==
    \E t \in 1..Len(tasks), u \in 1..Len(tasks) :
        /\ tasks[t].pc = "finished"
        /\ Len(tasks[t].df) = 2
        /\ tasks[t].predictions[1].success
        /\ ~tasks[t].predictions[2].success
        /\ batch_jobs[tasks[t].job_id].status = "completed"
        /\ tasks[u].pc \in {"added", "sleeping"}

\* C27: the dummy model is installed only when both slots are empty after
\* loading: an agent loaded from an artifact store keeps every model that was
\* read from it, holds the dummy model only beside an empty fallback slot, and
\* carries the dummy's metadata only when no model was read.
C27_LoadedModelNeverReplaced ==
    /\ inference_agent.primary_model = Some(DummyModel)
           => IsNone(inference_agent.fallback_model)
    /\ \A disk \in Disks :
          inference_agent = NewInferenceAgent(disk) =>
             /\ ~IsNone(LoadSlot(disk.primary))
                    => inference_agent.primary_model = LoadSlot(disk.primary)
             /\ inference_agent.fallback_model = LoadSlot(disk.fallback)
             /\ (~IsNone(LoadSlot(disk.primary)) \/ ~IsNone(LoadSlot(disk.fallback)))
                    => inference_agent.model_metadata # dummy_metadata

\* C28: a call of predict_single invokes at most two models: the primary at
\* most once and only as the first invocation, the fallback at most once, and
\* when the fallback was invoked and raised the result has success = false.
C28_AtMostTwoInvocations ==
    resp.endpoint = "predict_single" =>
        LET calls == resp.calls
        IN  /\ Len(calls) <= 2
            /\ Cardinality({i \in 1..Len(calls) : calls[i].slot = "fallback"}) <= 1
            /\ \A i \in 1..Len(calls) : calls[i].slot = "primary" => i = 1
            /\ \A i \in 1..Len(calls) :
                   calls[i].slot = "fallback" /\ calls[i].raised =>
                       i = Len(calls) /\ ~resp.success

\* C28 witness: the primary model raised, then the fallback model raised, and
\* predict_single returned a failure after these two invocations.
C28_Witness ==
    /\ resp.endpoint = "predict_single"
    /\ Len(resp.calls) = 2
    /\ resp.calls[1].slot = "primary" /\ resp.calls[1].raised
    /\ resp.calls[2].slot = "fallback" /\ resp.calls[2].raised
    /\ ~resp.success

\* C29: health_check reports status 'healthy' with test_prediction 'successful'
\* only when its test call of predict_single returned success = true; when the
\* test prediction failed in both slots it reports 'unhealthy'.
C29_HealthyOnlyWhenTestSucceeded ==
    resp.endpoint = "health_check" =>
        LET body == Val(resp.body)
        IN  /\ (body.status = "healthy" /\ body.test_prediction = "successful")
                   => body.result_success
            /\ (Len(body.calls) = 2 /\ body.calls[1].raised /\ body.calls[2].raised)
                   => body.status = "unhealthy"

\* C30: in to_inference, when a model that declares feature_names_in_ produces
\* the prediction, the frame it was called with has exactly its declared
\* columns, in its order, also when it is the fallback model answering after
\* the primary model failed.
C30_AlignedToPredictingModel ==
    (resp.endpoint = "to_inference" /\ resp.success) =>
        LET produced == resp.calls[Len(resp.calls)]
        IN  ~IsNone(produced.expects) => produced.columns = Val(produced.expects)

====
